---- MODULE Spec2Model ----
(***************************************************************************)
(* Model of the localization-file pipeline of app.py: the locator          *)
(* (find_language_files), the classifier (is_educational_content), the     *)
(* extractor (extract_text_from_lang_file), the two report pipelines       *)
(* (perform_language_analysis, perform_spell_check), the custom            *)
(* dictionary (load/create/add) and the editor's file operations.          *)
(*                                                                         *)
(* Python strings are TLA+ strings; Len, \o and SubSeq act on them.        *)
(* Python None is the empty tuple, a present value x is <<x>>.             *)
(***************************************************************************)
EXTENDS Integers, Sequences, FiniteSets, TLC

None == <<>>

Some(x) == <<x>>

(***************************************************************************)
(* Python str primitives.  Operators whose work grows with the length of   *)
(* the string are written position by position (what is emitted for the    *)
(* character at i) and the pieces are concatenated by halving, so that the *)
(* evaluation depth stays logarithmic in the length.                       *)
(***************************************************************************)
Char(s, i) == SubSeq(s, i, i)

CharsOf(s) == {Char(s, i) : i \in 1..Len(s)}

RECURSIVE CatRange(_, _, _)
CatRange(parts, lo, hi) ==
    IF lo > hi THEN ""
    ELSE IF lo = hi THEN parts[lo]
    ELSE CatRange(parts, lo, (lo + hi) \div 2) \o CatRange(parts, (lo + hi) \div 2 + 1, hi)

\* ''.join(parts)
Cat(parts) == CHOOSE r \in {CatRange(p, 1, Len(p)) : p \in {parts}} : TRUE

RECURSIVE FlatRange(_, _, _)
FlatRange(parts, lo, hi) ==
    IF lo > hi THEN <<>>
    ELSE IF lo = hi THEN parts[lo]
    ELSE FlatRange(parts, lo, (lo + hi) \div 2) \o FlatRange(parts, (lo + hi) \div 2 + 1, hi)

\* the concatenation of a list of lists
Flat(parts) == CHOOSE r \in {FlatRange(p, 1, Len(p)) : p \in {parts}} : TRUE

\* the string obtained by emitting Emit(s, i) for every position i of s
Rewrite(s, Emit(_, _)) ==
    IF s = "" THEN "" ELSE Cat([i \in 1..Len(s) |-> Emit(s, i)])

\* str.strip / str.split / regex \s
Whitespace == {" ", "\t", "\n", "\r"}

Digits == CharsOf("0123456789")

LowerLetters == CharsOf("abcdefghijklmnopqrstuvwxyz")

UpperLetters == CharsOf("ABCDEFGHIJKLMNOPQRSTUVWXYZ")

Letters == LowerLetters \cup UpperLetters

\* regex \w
WordChars == Letters \cup Digits \cup {"_"}

LowerChar(c) ==
    IF c \in UpperLetters
    THEN LET i == CHOOSE k \in 1..26 : Char("ABCDEFGHIJKLMNOPQRSTUVWXYZ", k) = c
         IN  Char("abcdefghijklmnopqrstuvwxyz", i)
    ELSE c

LowerAt(s, i) == LowerChar(Char(s, i))

\* str.lower(): a string without upper-case letters is returned as it is
lower(s) ==
    IF \A i \in 1..Len(s) : Char(s, i) \notin UpperLetters THEN s ELSE Rewrite(s, LowerAt)

\* str.startswith / str.endswith / `in`
startswith(s, p) == Len(p) <= Len(s) /\ SubSeq(s, 1, Len(p)) = p

endswith(s, p) == Len(p) <= Len(s) /\ SubSeq(s, Len(s) - Len(p) + 1, Len(s)) = p

contains(s, p) ==
    \E i \in 1..(Len(s) - Len(p) + 1) : SubSeq(s, i, i + Len(p) - 1) = p

\* end (exclusive) of the maximal run of characters of class cls starting at i
RunEnd(s, i, cls) ==
    CHOOSE j \in i..(Len(s) + 1) :
        /\ \A k \in i..(j - 1) : Char(s, k) \in cls
        /\ j = Len(s) + 1 \/ Char(s, j) \notin cls

\* start of the maximal run of characters of class cls that ends at i
RunStart(s, i, cls) ==
    CHOOSE j \in 1..(i + 1) :
        /\ \A k \in j..i : Char(s, k) \in cls
        /\ j = 1 \/ Char(s, j - 1) \notin cls

\* end (exclusive) of the maximal run of characters outside cls starting at i
WordEnd(s, i, cls) ==
    CHOOSE j \in i..(Len(s) + 1) :
        /\ \A k \in i..(j - 1) : Char(s, k) \notin cls
        /\ j = Len(s) + 1 \/ Char(s, j) \in cls

\* str.strip()
strip(s) ==
    LET b == RunEnd(s, 1, Whitespace)
    IN  IF b > Len(s) THEN "" ELSE SubSeq(s, b, RunStart(s, Len(s), Whitespace) - 1)

WordAt(s, i) ==
    IF Char(s, i) \notin Whitespace /\ (i = 1 \/ Char(s, i - 1) \in Whitespace)
    THEN <<SubSeq(s, i, WordEnd(s, i, Whitespace) - 1)>>
    ELSE <<>>

\* str.split() with no argument: whitespace-separated words, no empty ones
split(s) == IF s = "" THEN <<>> ELSE Flat([i \in 1..Len(s) |-> WordAt(s, i)])

\* the piece that starts right after position i (0, or a separator)
PieceAfter(s, i, sep) ==
    IF i = 0 \/ Char(s, i) = sep
    THEN <<SubSeq(s, i + 1, WordEnd(s, i + 1, {sep}) - 1)>>
    ELSE <<>>

\* str.split(sep) for a one-character separator: empty pieces are kept
splitsep(s, sep) == Flat([i \in 1..(Len(s) + 1) |-> PieceAfter(s, i - 1, sep)])

\* sep.join(words)
join(sep, words) ==
    IF words = <<>> THEN ""
    ELSE Cat([i \in 1..Len(words) |-> IF i = 1 THEN words[i] ELSE sep \o words[i]])

\* str.isdigit()
isdigit(s) == Len(s) > 0 /\ \A i \in 1..Len(s) : Char(s, i) \in Digits

\* str.isalpha()
isalpha(s) == Len(s) > 0 /\ \A i \in 1..Len(s) : Char(s, i) \in Letters

\* chained str.replace(c, '') for single characters, and re.sub('[..]', '', s)
removechars(s, cls) ==
    IF s = "" THEN ""
    ELSE Cat([i \in 1..Len(s) |-> IF Char(s, i) \in cls THEN "" ELSE Char(s, i)])

(***************************************************************************)
(* Educational content classifier                                          *)
(***************************************************************************)
\* the literal alternatives of the educational_patterns regexes
educational_patterns ==
    { "npc.", "character.", ".dialog.", ".dialogue.",
      "lesson.", "tutorial.", "instruction.", "guide.", "help.",
      "story.", "narrative.", "text.", "message.", "description.",
      "sign.", "book.", "page.", "chapter.",
      "chat.", "conversation.", "speak.", "say.",
      "activity.", "exercise.", "task.", "quest.", "mission.",
      "custom.", "edu.", "learn.", "teach.",
      "world.", "level.", "stage.",
      ".name.", ".title.", "convo.", "dialogue.",
      "agent.", "board.", "slate.", "poster." }

technical_markers ==
    { "minecraft:", "textures/", "sounds/", "models/", "blockbench", "{", "}", "[", "]" }

educational_words ==
    { "lesson", "tutorial", "help", "guide", "story", "welcome", "instruction", "activity" }

sentence_indicators ==
    { ".", "!", "?", ",", "the ", "a ", "an ", "and ", "or ", "but ", "with ",
      "to ", "for ", "of ", "in ", "on ", "at " }

\* a classifier that looks at no key
NoKeyMatches(key) == FALSE

KeyMatches(key) == \E p \in educational_patterns : contains(lower(key), p)

is_educational_content(key, value) ==
    LET value_lower == lower(value)
        words == split(value)
    IN  IF KeyMatches(key) THEN TRUE
        ELSE IF Len(strip(value)) < 3 THEN FALSE
        ELSE IF \E tech \in technical_markers : contains(value_lower, tech) THEN FALSE
        ELSE IF isdigit(removechars(strip(value), {".", ",", " "})) THEN FALSE
        ELSE IF Len(words) = 1
                /\ ~ \E w \in educational_words : contains(value_lower, w) THEN FALSE
        ELSE (\E ind \in sentence_indicators : contains(value_lower, ind))
             \/ Len(words) >= 4

(***************************************************************************)
(* Text cleaning.  re.sub scans from the left and replaces non-overlapping *)
(* matches; each substitution is given by what the scan emits at position  *)
(* i: the replacement where a match starts, nothing inside a match, the    *)
(* character itself elsewhere.                                             *)
(***************************************************************************)
FormatCodes == CharsOf("0123456789abcdefklmnor")

\* a match of the format-code pattern starts at i
IsFormatCode(s, i) == i >= 1 /\ i < Len(s) /\ Char(s, i) = "§" /\ Char(s, i + 1) \in FormatCodes

\* re.sub(r'§[0-9a-fk-or]', '', text)
StripFormatCodeAt(s, i) ==
    IF IsFormatCode(s, i) \/ IsFormatCode(s, i - 1) THEN "" ELSE Char(s, i)

\* last position of the match of %[0-9]*[ds] that starts at p, 0 when none
PrintfEnd(s, p) ==
    IF Char(s, p) # "%" THEN 0
    ELSE LET j == RunEnd(s, p + 1, Digits)
         IN  IF j <= Len(s) /\ Char(s, j) \in {"d", "s"} THEN j ELSE 0

\* re.sub(r'%[0-9]*[ds]', '[value]', text)
ReplacePrintfAt(s, i) ==
    IF PrintfEnd(s, i) > 0 THEN "[value]"
    ELSE IF \E p \in 1..(i - 1) : PrintfEnd(s, p) >= i THEN ""
    ELSE Char(s, i)

\* last position of a match of %[a-zA-Z_][a-zA-Z0-9_]*% tried at p, 0 when none
VariableEnd(s, p) ==
    IF Char(s, p) # "%" \/ p >= Len(s) \/ Char(s, p + 1) \notin (Letters \cup {"_"}) THEN 0
    ELSE LET j == RunEnd(s, p + 2, WordChars)
         IN  IF j <= Len(s) /\ Char(s, j) = "%" THEN j ELSE 0

RECURSIVE VariableStart(_, _)
\* the scan finds a match at p: the pattern matches there and the "%" at p is
\* not the closing "%" of the match found before it
VariableStart(s, p) ==
    /\ VariableEnd(s, p) > 0
    /\ ~ \E q \in 1..(p - 1) : Char(s, q) = "%" /\ VariableEnd(s, q) = p /\ VariableStart(s, q)

ReplaceVariableAt(s, i) ==
    IF Char(s, i) = "%" /\ VariableStart(s, i) THEN "[value]"
    ELSE IF \E p \in 1..(i - 1) :
               Char(s, p) = "%" /\ VariableEnd(s, p) >= i /\ VariableStart(s, p) THEN ""
    ELSE Char(s, i)

\* a backslash followed by the letter n starts at i
IsEscapedNewline(s, i) == i >= 1 /\ i < Len(s) /\ Char(s, i) = "\\" /\ Char(s, i + 1) = "n"

\* re.sub(r'\\n', ' ', text)
ReplaceEscapedNewlineAt(s, i) ==
    IF IsEscapedNewline(s, i) THEN " "
    ELSE IF IsEscapedNewline(s, i - 1) THEN ""
    ELSE Char(s, i)

\* re.sub(r'X{n,}', rep, text) for a character class X
CollapseRuns(s, cls, n, rep) ==
    IF s = "" THEN ""
    ELSE Cat([i \in 1..Len(s) |->
            IF Char(s, i) \notin cls THEN Char(s, i)
            ELSE LET b == RunStart(s, i, cls)
                     e == RunEnd(s, i, cls)
                 IN  IF e - b < n THEN Char(s, i)
                     ELSE IF i = b THEN rep ELSE ""])

\* re.sub(r'\s+', ' ', text)
CollapseWhitespace(s) == CollapseRuns(s, Whitespace, 1, " ")

SentenceEnd == {".", "!", "?"}

\* re.sub(r'\s*([.!?])\s*', r'\1 ', text): the whitespace on both sides of a
\* sentence end is consumed by its match (or by the match before it)
SpacePunctuationAt(s, i) ==
    IF Char(s, i) \in SentenceEnd THEN Char(s, i) \o " "
    ELSE IF Char(s, i) \notin Whitespace THEN Char(s, i)
    ELSE LET b == RunStart(s, i, Whitespace)
             e == RunEnd(s, i, Whitespace)
         IN  IF (e <= Len(s) /\ Char(s, e) \in SentenceEnd)
                \/ (b > 1 /\ Char(s, b - 1) \in SentenceEnd)
             THEN "" ELSE Char(s, i)

NotShortNumber(w) == ~ (isdigit(w) /\ Len(w) < 3)

\* the substitutions of the source, innermost first: format codes, %d and %s,
\* %variables%, escaped newlines, line breaks, repeated brackets, braces,
\* whitespace runs, spacing after a sentence end, short numbers
clean_educational_text(text) ==
    strip(join(" ", SelectSeq(split(
        Rewrite(
            CollapseWhitespace(
                removechars(
                    CollapseRuns(
                        CollapseRuns(
                            CollapseRuns(
                                Rewrite(
                                    Rewrite(
                                        Rewrite(
                                            Rewrite(text, StripFormatCodeAt),
                                            ReplacePrintfAt),
                                        ReplaceVariableAt),
                                    ReplaceEscapedNewlineAt),
                                {"\n"}, 1, " "),
                            {"["}, 2, "["),
                        {"]"}, 2, "]"),
                    {"{", "}"})),
            SpacePunctuationAt)), NotShortNumber)))

(***************************************************************************)
(* Text extractor                                                          *)
(***************************************************************************)
\* a line that counts as a key=value entry
IsEntryLine(line) == line # "" /\ ~ startswith(line, "#") /\ contains(line, "=")

\* line.split('=', 1)
KeyOf(line) == strip(SubSeq(line, 1, WordEnd(line, 1, {"="}) - 1))

ValueOf(line) == strip(SubSeq(line, WordEnd(line, 1, {"="}) + 1, Len(line)))

HasLetter(s) == \E i \in 1..Len(s) : Char(s, i) \in Letters

\* a quality check on the length alone
LongEnough(cleaned_text) == Len(cleaned_text) > 10

\* the final quality check on a cleaned value
Substantial(cleaned_text) ==
    /\ Len(cleaned_text) > 10
    /\ HasLetter(cleaned_text)
    /\ Len(split(cleaned_text)) >= 3

\* the cleaned value, when it passes the final quality check
KeptText(cleaned_text) == IF Substantial(cleaned_text) THEN <<cleaned_text>> ELSE <<>>

\* what a key=value entry contributes
EntryText(key, value) ==
    IF value # "" /\ is_educational_content(key, value)
    THEN KeptText(clean_educational_text(value)) ELSE <<>>

\* what a stripped line contributes
LineText(line) == IF IsEntryLine(line) THEN EntryText(KeyOf(line), ValueOf(line)) ELSE <<>>

\* what the loop appends to educational_text for one line of the file
AcceptedText(raw_line) == LineText(strip(raw_line))

\* the educational_text list built by the loop over the lines
EducationalText(lines) == Flat([i \in 1..Len(lines) |-> AcceptedText(lines[i])])

\* the extractor on a file whose decoded content is `content`
extract_text_from_content(content) ==
    IF strip(content) = "" THEN ""
    ELSE strip(CollapseWhitespace(join(" ", EducationalText(splitsep(content, "\n")))))

(***************************************************************************)
(* Numbers and their text                                                  *)
(***************************************************************************)
RECURSIVE str(_)
\* str(n) for a natural number
str(n) == IF n < 10 THEN Char("0123456789", n + 1)
          ELSE str(n \div 10) \o Char("0123456789", (n % 10) + 1)

\* round(a / b) to the nearest integer, ties to the even one (Python round)
RoundDiv(a, b) ==
    LET q == a \div b
        r == a % b
    IN  IF 2 * r < b THEN q
        ELSE IF 2 * r > b THEN q + 1
        ELSE IF q % 2 = 0 THEN q ELSE q + 1

\* round(size / 1024, 2), in hundredths of a KB
size_kb(size_bytes) == RoundDiv(size_bytes * 100, 1024)

\* the text of a non-negative number given in hundredths, as Python prints
\* the float: 0 is 0.0, 10 is 0.1, 9 is 0.09
HundredthsText(h) ==
    str(h \div 100) \o "." \o
    (IF h % 10 = 0 THEN str((h % 100) \div 10) ELSE str((h % 100) \div 10) \o str(h % 10))

(***************************************************************************)
(* Paths (posixpath).  The process runs in the directory CWD; a file of    *)
(* the file system is known by its normalised absolute path.               *)
(***************************************************************************)
CWD == "/app"

UPLOAD_FOLDER == "store"

UNPACKED_FOLDER == "unpacked"

isabs(p) == startswith(p, "/")

\* os.path.join(a, b)
os_path_join(a, b) ==
    IF isabs(b) THEN b
    ELSE IF a = "" \/ endswith(a, "/") THEN a \o b
    ELSE a \o "/" \o b

IsComponent(c) == c # "" /\ c # "."

\* the components of a path, without the empty ones and the "." ones
Components(p) == SelectSeq(splitsep(p, "/"), IsComponent)

RECURSIVE CollapseDotDot(_, _)
\* the components left after every ".." has removed the one before it
CollapseDotDot(comps, done) ==
    IF comps = <<>> THEN done
    ELSE IF Head(comps) = ".."
         THEN CollapseDotDot(Tail(comps),
                             IF done = <<>> THEN <<>> ELSE SubSeq(done, 1, Len(done) - 1))
    ELSE CollapseDotDot(Tail(comps), Append(done, Head(comps)))

\* os.path.abspath(p): normpath(join(cwd, p))
abspath(p) == "/" \o join("/", CollapseDotDot(Components(os_path_join(CWD, p)), <<>>))

\* os.path.basename(p)
\* os.path.basename: what follows the last separator
basename(p) ==
    SubSeq(p, 1 + (CHOOSE k \in 0..Len(p) :
                       /\ k = 0 \/ Char(p, k) = "/"
                       /\ \A j \in (k + 1)..Len(p) : Char(p, j) # "/"), Len(p))

CommonPrefixLen(a, b) ==
    CHOOSE n \in 0..Len(a) :
        /\ n <= Len(b)
        /\ \A k \in 1..n : a[k] = b[k]
        /\ n = Len(a) \/ n = Len(b) \/ a[n + 1] # b[n + 1]

\* os.path.commonpath([p, q]); None stands for the ValueError raised when an
\* absolute and a relative path are mixed
commonpath(p, q) ==
    IF isabs(p) # isabs(q) THEN None
    ELSE LET a == Components(p)
             b == Components(q)
         IN  Some((IF isabs(p) THEN "/" ELSE "")
                  \o join("/", SubSeq(a, 1, CommonPrefixLen(a, b))))

\* the path names something at or below the directory root (both normalised)
Inside(path, root) == path = root \/ startswith(path, root \o "/")

\* bytes of the UTF-8 encoding of a text: the section sign takes two
ByteLen(content) == Len(content) + Cardinality({i \in 1..Len(content) : Char(content, i) = "§"})

(***************************************************************************)
(* Localization file locator                                               *)
(***************************************************************************)
english_patterns ==
    { "en_us.lang", "en_gb.lang", "en_ca.lang", "en_au.lang", "en.lang", "english.lang", "us.lang" }

english_indicators == { "en_", "english", "_us", "_en" }

is_english_lang_file(filename) ==
    \/ lower(filename) \in english_patterns
    \/ \E indicator \in english_indicators : contains(lower(filename), indicator)

\* the language_codes table, in the order in which the dict is iterated
language_codes ==
    << <<"en_us", "English (US)">>, <<"en_gb", "English (UK)">>, <<"en_ca", "English (Canada)">>,
       <<"en_au", "English (Australia)">>, <<"en", "English">>, <<"us", "English (US)">>,
       <<"english", "English">>, <<"es_es", "Spanish (Spain)">>, <<"es_mx", "Spanish (Mexico)">>,
       <<"fr_fr", "French (France)">>, <<"fr_ca", "French (Canada)">>, <<"de_de", "German">>,
       <<"it_it", "Italian">>, <<"pt_br", "Portuguese (Brazil)">>,
       <<"pt_pt", "Portuguese (Portugal)">>, <<"ru_ru", "Russian">>,
       <<"zh_cn", "Chinese (Simplified)">>, <<"zh_tw", "Chinese (Traditional)">>,
       <<"ja_jp", "Japanese">>, <<"ko_kr", "Korean">> >>

\* str.replace('.lang', '')
RemoveLangAt(s, i) ==
    IF \E p \in 1..i : p + 4 >= i /\ p + 4 <= Len(s) /\ SubSeq(s, p, p + 4) = ".lang"
    THEN "" ELSE Char(s, i)

extract_language_code(filename) ==
    LET base_name == Rewrite(lower(filename), RemoveLangAt)
        exact == {k \in 1..Len(language_codes) : language_codes[k][1] = base_name}
        partial == {k \in 1..Len(language_codes) : contains(base_name, language_codes[k][1])}
        First(ks) == CHOOSE k \in ks : \A j \in ks : k <= j
    IN  IF exact # {} THEN language_codes[First(exact)][2]
        ELSE IF partial # {} THEN language_codes[First(partial)][2]
        ELSE "Unknown"

\* re.sub(r'[^\w\s\'-]', ' ', text)
KeepWordCharAt(s, i) ==
    IF Char(s, i) \in (WordChars \cup Whitespace \cup {"'", "-"}) THEN Char(s, i) ELSE " "

Checkable(word) == Len(word) > 2 /\ ~ isdigit(word)

\* words without the later case-insensitive repetitions, in first-seen order
unique_words(words) ==
    SelectSeq([i \in 1..Len(words) |->
                  IF \E j \in 1..(i - 1) : lower(words[j]) = lower(words[i]) THEN "" ELSE words[i]],
              LAMBDA w : w # "")

IsRawEntry(line) ==
    strip(line) # "" /\ ~ startswith(strip(line), "#") /\ contains(line, "=")

\* total_entries: the key=value lines of the raw content
EntryCount(content) == Len(SelectSeq(splitsep(content, "\n"), IsRawEntry))

(***************************************************************************)
(* The file contents the model runs on: texts on either side of each       *)
(* threshold of the pipelines.                                             *)
(***************************************************************************)
\* 253 bytes; 166 characters and 27 words of teaching text, with the words
\* creepers, golem (twice) and recieve
RichLesson ==
    "# Lesson strings\nnpc.guide.01=§aWelcome, explorer! Let's learn about renewable energy today.\nitem.pick.id=minecraft:diamond_pickaxe\nsign.lab.2=The biome has %d creepers and a golem near the portal.\nui.hint=Press the button to recieve your golem lesson\n"

\* 138 bytes, no teaching text
TechnicalOnly ==
    "item.a.id=minecraft:diamond_pickaxe\nitem.b.id=textures/blocks/stone\ngui.ok=OK\ngui.count=12,500\ngui.sound=sounds/random/click_sound_effect\n"

\* 17 words of two letters, 50 characters
Chars50 ==
    "# padding comment line so that the file passes the size\nnpc.a=it is up to us to go on so\nnpc.b=do as we do or go if he\n"

\* 17 words, 49 characters
Chars49 ==
    "# padding comment line so that the file passes the size\nnpc.a=it is up to us to go on so\nnpc.b=do as we do or go if a\n"

\* 15 words, 128 characters
Words15 ==
    "npc.a=Sustainability biodiversity ecosystem photosynthesis respiration\nnpc.b=Energy matter water plants animals\nnpc.c=Learn about these five ideas\n"

\* 14 words, 123 characters
Words14 ==
    "npc.a=Sustainability biodiversity ecosystem photosynthesis respiration\nnpc.b=Energy matter water plants animals\nnpc.c=Learn about these ideas\n"

\* 100 bytes; 17 words, 84 characters
Size100 ==
    "npc.a=Welcome to the lesson about energy and the biome.\nnpc.b001=We are here to help you learn all.\n"

\* 99 bytes, the same text
Size99 ==
    "npc.a=Welcome to the lesson about energy and the biome.\nnpc.b001=We are here to help you learn all."

\* 118 bytes; 6 words, 34 characters
ShortAndFew ==
    "# padding comment line so that the file passes the size of one hundred bytes\nnpc.a=Welcome to the lesson about energy\n"

Contents ==
    {RichLesson, TechnicalOnly, Chars50, Chars49, Words15, Words14, Size100, Size99, ShortAndFew}

NotesText == "Notes of the world builder\n"

LangNames == {"en_US.lang", "en_GB.lang", "fr_FR.lang"}

(***************************************************************************)
(* What the program computes from a file's content, from a text and from a *)
(* file's name.  It is computed once for the contents, texts and names     *)
(* above.                                                                  *)
(***************************************************************************)
\* Body applied to a value that is computed once
Bind(value, Body(_)) == CHOOSE result \in {Body(v) : v \in {value}} : TRUE

\* table[x] where the table has it, else what is computed for x
LookUp(table, x, Computed(_)) == IF x \in DOMAIN table THEN table[x] ELSE Computed(x)

FactsOfContent(content) ==
    [ entries |-> EntryCount(content),
      text |-> extract_text_from_content(content) ]

KnownContentFacts == [content \in Contents |-> FactsOfContent(content)]

ContentFacts(content) == LookUp(KnownContentFacts, content, FactsOfContent)

\* len(text.strip()), text.split(), the words of the cleaned text, those
\* kept for the spell check, and the unique ones
FactsOfText(text) ==
    LET Cleaned(all_words) ==
            [ chars |-> Len(strip(text)),
              split |-> split(text),
              all_words |-> all_words,
              words |-> SelectSeq(all_words, Checkable),
              unique_words |-> unique_words(SelectSeq(all_words, Checkable)) ]
    IN  Cleaned(split(Rewrite(text, KeepWordCharAt)))

KnownTextFacts ==
    [text \in {KnownContentFacts[content].text : content \in Contents} |-> FactsOfText(text)]

TextFacts(text) == LookUp(KnownTextFacts, text, FactsOfText)

FactsOfName(filename) ==
    [ is_lang |-> endswith(lower(filename), ".lang"),
      is_english |-> is_english_lang_file(filename),
      language_code |-> extract_language_code(filename) ]

KnownNameFacts == [filename \in LangNames \cup {"notes.txt"} |-> FactsOfName(filename)]

NameFacts(filename) == LookUp(KnownNameFacts, filename, FactsOfName)

\* an insertion that keeps the order of discovery
InsertAtEnd(sorted, x) == sorted \o <<x>>

RECURSIVE InsertBySize(_, _)
\* where a stable sort by decreasing size_bytes puts x among the already
\* sorted earlier elements: after every element that is not smaller
InsertBySize(sorted, x) ==
    IF sorted = <<>> THEN <<x>>
    ELSE IF Head(sorted).size_bytes >= x.size_bytes
         THEN <<Head(sorted)>> \o InsertBySize(Tail(sorted), x)
    ELSE <<x>> \o sorted

RECURSIVE SortBySizeDesc(_, _)
\* list.sort(key=lambda x: x['size_bytes'], reverse=True), a stable sort
SortBySizeDesc(files, sorted) ==
    IF files = <<>> THEN sorted
    ELSE SortBySizeDesc(Tail(files), InsertBySize(sorted, Head(files)))

IsEnglish(f) == f.is_english

IsNotEnglish(f) == ~ f.is_english

\* the record built for the file at path, named name, of size_bytes bytes
FileRecord(path, relative_path, name, size_bytes) ==
    [ name |-> name,
      relative_path |-> relative_path,
      full_path |-> path,
      size_bytes |-> size_bytes,
      size_kb |-> size_kb(size_bytes),
      is_english |-> NameFacts(name).is_english,
      language_code |-> NameFacts(name).language_code ]

\* the record built for one file found by the walk
file_info(files, unpacked_path, path) ==
    FileRecord(path, SubSeq(path, Len(abspath(unpacked_path)) + 2, Len(path)),
               basename(path), ByteLen(files[path]))

\* the files below the directory root
FilesBelow(files, root) == {path \in DOMAIN files : Inside(path, root) /\ path # root}

\* the files that os.walk(unpacked_path) visits
FilesUnder(files, unpacked_path) == FilesBelow(files, abspath(unpacked_path))

\* a walk that takes every file for a .lang file
IsAnyFile(path) == TRUE

IsLangFile(path) == NameFacts(basename(path)).is_lang

\* find_language_files on the file system (files, directories), when os.walk
\* visits the files in the order walk
find_language_files(files, directories, unpacked_folder_name, walk) ==
    LET unpacked_path == os_path_join(UNPACKED_FOLDER, unpacked_folder_name)
        Sorted(lang_files) ==
            SortBySizeDesc(SelectSeq(lang_files, IsEnglish), <<>>)
                \o SortBySizeDesc(SelectSeq(lang_files, IsNotEnglish), <<>>)
        Found(found) ==
            Sorted([i \in 1..Len(found) |-> file_info(files, unpacked_path, found[i])])
    IN  IF abspath(unpacked_path) \notin directories THEN <<>>
        ELSE Found(SelectSeq(walk, IsLangFile))

(***************************************************************************)
(* Readability analyzer.  The textstat library is outside the program: its *)
(* outcome is an input, either an exception or the two scores the labels   *)
(* are derived from, in hundredths (the scores are rounded to 2 decimals). *)
(***************************************************************************)
TextstatRaises == [raises |-> TRUE]

TextstatScores(grade, ease) == [raises |-> FALSE, grade |-> grade, ease |-> ease]

\* int(round(grade_level + 5)) for a grade in hundredths
\* an age that is the rounded grade plus 5 for every grade
GradePlusFive(grade_level) == RoundDiv(grade_level + 500, 100)

precise_age(grade_level) ==
    IF grade_level <= 100 THEN 6
    ELSE IF grade_level <= 1200 THEN RoundDiv(grade_level + 500, 100)
    ELSE IF grade_level <= 1600 THEN 18
    ELSE 22

reading_level(grade_level) ==
    IF grade_level <= 600 THEN "Elementary (Grades 1-6)"
    ELSE IF grade_level <= 800 THEN "Middle School (Grades 6-8)"
    ELSE IF grade_level <= 1200 THEN "High School (Grades 9-12)"
    ELSE IF grade_level <= 1600 THEN "College Level"
    ELSE "Graduate Level"

\* an interpretation that knows one label only
AlwaysStandard(ease_score) == "Standard (8th-9th grade)"

ease_interpretation(ease_score) ==
    IF ease_score >= 9000 THEN "Very Easy (5th grade)"
    ELSE IF ease_score >= 8000 THEN "Easy (6th grade)"
    ELSE IF ease_score >= 7000 THEN "Fairly Easy (7th grade)"
    ELSE IF ease_score >= 6000 THEN "Standard (8th-9th grade)"
    ELSE IF ease_score >= 5000 THEN "Fairly Difficult (10th-12th grade)"
    ELSE IF ease_score >= 3000 THEN "Difficult (College level)"
    ELSE "Very Difficult (Graduate level)"

\* None, or the analysis dict (the fields derived by the program itself)
analyze_language_complexity(text, textstat) ==
    LET Analysis(facts) ==
            IF text = "" \/ facts.chars < 10 THEN None
            ELSE IF textstat.raises THEN None
            ELSE Some([ word_count |-> Len(facts.split),
                        char_count |-> Len(text),
                        flesch_reading_ease |-> textstat.ease,
                        flesch_kincaid_grade |-> textstat.grade,
                        reading_time_minutes |-> RoundDiv(Len(facts.split) * 10, 200),
                        reading_level |-> reading_level(textstat.grade),
                        target_age |-> str(precise_age(textstat.grade)) \o " years",
                        ease_interpretation |-> ease_interpretation(textstat.ease) ])
    IN  Analysis(TextFacts(text))

(***************************************************************************)
(* Report pipelines.  A result is the returned pair (report, reason)       *)
(* together with what the call did: the stages it entered, in order, and   *)
(* the file it selected.                                                   *)
(***************************************************************************)
\* the exceptions os.path.getsize can raise on a file the walk has found
StatOutcomes == {"ok", "FileNotFoundError", "PermissionError", "OSError"}

\* str(e) of such an OSError
OSErrorText == "[Errno 40] Too many levels of symbolic links"

Result(op, report, reason, stages, selected) ==
    [op |-> op, report |-> report, reason |-> reason, stages |-> stages, selected |-> selected]

\* a failure that gives no reason
FailedSilently(op, reason, stages, selected) == Result(op, None, None, stages, selected)

Failed(op, reason, stages, selected) == Result(op, None, Some(reason), stages, selected)

\* the smallest of the files
MinBySize(files) ==
    files[CHOOSE i \in 1..Len(files) :
            \A j \in 1..Len(files) : files[i].size_bytes <= files[j].size_bytes]

\* the last file of maximal size
LastMaxBySize(files) ==
    files[CHOOSE i \in 1..Len(files) :
            /\ \A j \in 1..Len(files) : files[j].size_bytes <= files[i].size_bytes
            /\ \A j \in (i + 1)..Len(files) : files[j].size_bytes < files[i].size_bytes]

\* max(files, key=lambda x: x['size_bytes']): the first file of maximal size
MaxBySize(files) ==
    files[CHOOSE i \in 1..Len(files) :
            /\ \A j \in 1..Len(files) : files[j].size_bytes <= files[i].size_bytes
            /\ \A j \in 1..(i - 1) : files[j].size_bytes < files[i].size_bytes]

\* a size check that rejects a file of exactly 100 bytes too
TooSmallOrEqual(file) == file.size_bytes <= 100

\* the size check on the selected file
TooSmall(file) == file.size_bytes < 100

\* a length check that lets every text pass
NeverTooShort(facts) == FALSE

\* the length check on the extracted text
TooShort(facts) == facts.chars < 50

\* a word check that lets 14 words pass
FewerThan14Words(facts) == Len(facts.split) < 14

\* the word check on the extracted text
TooFewWords(facts) == Len(facts.split) < 15

\* the walk finds a .lang file, so that os.path.getsize is called
StatCalled(directories, unpacked_folder_name, walk) ==
    /\ abspath(os_path_join(UNPACKED_FOLDER, unpacked_folder_name)) \in directories
    /\ \E i \in 1..Len(walk) : IsLangFile(walk[i])

\* an extractor that reads the file whatever open() raises
ExtractRegardless(files, path, readable) ==
    IF path \notin DOMAIN files THEN "" ELSE ContentFacts(files[path]).text

\* extract_text_from_lang_file on a file that can or cannot be read
extract_text_from_lang_file(files, path, readable) ==
    IF ~ readable \/ path \notin DOMAIN files THEN ""
    ELSE ContentFacts(files[path]).text

LongWord(w) == Len(w) > 2

\* the sign that opens a warning note (the source follows it with the
\* variation selector U+FE0F, which a TLA+ string cannot hold)
WarningSign == "⚠"

language_summary(english_files, non_english_files) ==
    "Found " \o str(Len(english_files)) \o " English file(s) and "
    \o str(Len(non_english_files)) \o " other language file(s)."

\* perform_language_analysis when os.walk visits the files in the order walk,
\* os.path.getsize ends as stat, the selected file can (or cannot) be read and
\* textstat answers as textstat.  The report holds the fields the program
\* computes; the fixed texts of filtering_info are left out.
perform_language_analysis(files, directories, unpacked_folder_name, walk, stat, readable, textstat) ==
    LET op == "perform_language_analysis"
        Analyzed(lang_files, english_files, non_english_files, largest_file, text, facts,
                 total_entries, analysis) ==
            LET described == largest_file.name \o " (" \o largest_file.language_code \o ")"
                analysis_note ==
                    IF english_files # <<>>
                    THEN "Analyzing English language file: " \o described
                    ELSE WarningSign \o " No English language files found. Analyzing " \o described
                         \o " - results may not be accurate for English readability assessment."
                educational_entries == Len(SelectSeq(facts.split, LongWord)) \div 8
                filtered_percentage ==
                    IF total_entries > 0 THEN RoundDiv(educational_entries * 1000, total_entries)
                    ELSE 0
                quoted == "'" \o largest_file.name \o "'"
            IN  IF text = ""
                THEN Failed(op, "Could not extract educational content from " \o quoted
                                \o ". The file may contain only technical/system content or be corrupted. Found "
                                \o str(total_entries)
                                \o " total entries, but none appear to contain user-facing educational content.",
                            <<"locate", "select", "size", "extract">>, Some(largest_file))
                ELSE IF TooShort(facts)
                THEN Failed(op, "Insufficient educational content found in " \o quoted \o " (only "
                                \o str(facts.chars)
                                \o " characters of user-facing text). Out of " \o str(total_entries)
                                \o " total entries, very few contained educational content suitable for analysis.",
                            <<"locate", "select", "size", "extract", "length">>,
                            Some(largest_file))
                ELSE IF TooFewWords(facts)
                THEN Failed(op, "Insufficient educational content found in " \o quoted \o " (only "
                                \o str(Len(facts.split))
                                \o " words of user-facing text). Language analysis requires at least 15 words of educational content for reliable metrics.",
                            <<"locate", "select", "size", "extract", "length", "words">>,
                            Some(largest_file))
                ELSE IF analysis = None
                THEN Failed(op, "Unable to analyze text complexity from the educational content in "
                                \o quoted
                                \o ". The filtered text content may not be suitable for readability analysis.",
                            <<"locate", "select", "size", "extract", "length", "words", "analyze">>,
                            Some(largest_file))
                ELSE Result(op,
                            Some([ analysis |-> analysis[1],
                                   analyzed_file |->
                                       [ name |-> largest_file.name,
                                         path |-> largest_file.relative_path,
                                         size_kb |-> largest_file.size_kb,
                                         language_code |-> largest_file.language_code,
                                         is_english |-> largest_file.is_english,
                                         total_files_found |-> Len(lang_files),
                                         english_files_found |-> Len(english_files),
                                         non_english_files_found |-> Len(non_english_files),
                                         total_entries |-> total_entries,
                                         educational_entries_estimated |-> educational_entries,
                                         content_filtered_percentage |-> filtered_percentage,
                                         extracted_text_words |-> Len(facts.split),
                                         extracted_text_chars |-> Len(text),
                                         analysis_note |-> analysis_note ],
                                   sample_text |-> IF Len(text) > 500
                                                   THEN SubSeq(text, 1, 500) \o "..." ELSE text,
                                   full_text_length |-> Len(text) ]),
                            None,
                            <<"locate", "select", "size", "extract", "length", "words", "analyze">>,
                            Some(largest_file))
        Extracted(lang_files, english_files, non_english_files, largest_file, text) ==
            Analyzed(lang_files, english_files, non_english_files, largest_file, text,
                     TextFacts(text),
                     IF readable /\ largest_file.full_path \in DOMAIN files
                     THEN ContentFacts(files[largest_file.full_path]).entries ELSE 0,
                     analyze_language_complexity(text, textstat))
        Selected(lang_files, english_files, non_english_files, largest_file) ==
            IF TooSmall(largest_file)
            THEN Failed(op, "The selected language file '" \o largest_file.name \o "' ("
                            \o largest_file.language_code
                            \o ") is too small (" \o HundredthsText(largest_file.size_kb)
                            \o " KB) to provide meaningful analysis. "
                            \o language_summary(english_files, non_english_files)
                            \o " Language analysis requires files with substantial text content.",
                        <<"locate", "select", "size">>, Some(largest_file))
            ELSE Extracted(lang_files, english_files, non_english_files, largest_file,
                           extract_text_from_lang_file(files, largest_file.full_path, readable))
        Separated(lang_files, english_files, non_english_files) ==
            Selected(lang_files, english_files, non_english_files,
                     IF english_files # <<>> THEN MaxBySize(english_files)
                     ELSE MaxBySize(lang_files))
        Located(lang_files) ==
            IF lang_files = <<>>
            THEN Failed(op, "No language files (.lang) were found in this unpacked world. Language analysis requires at least one .lang file to be present.",
                        <<"locate">>, None)
            ELSE Separated(lang_files, SelectSeq(lang_files, IsEnglish),
                           SelectSeq(lang_files, IsNotEnglish))
        stat_called == StatCalled(directories, unpacked_folder_name, walk)
    IN  IF stat = "FileNotFoundError" /\ stat_called
        THEN Failed(op, "The unpacked world folder could not be found. Please ensure the world has been properly unpacked.",
                    <<"locate">>, None)
        ELSE IF stat = "PermissionError" /\ stat_called
        THEN Failed(op, "Permission denied when accessing language files. Please check file permissions.",
                    <<"locate">>, None)
        ELSE IF stat = "OSError" /\ stat_called
        THEN Failed(op, "Error during analysis: " \o OSErrorText, <<"locate">>, None)
        ELSE Bind(find_language_files(files, directories, unpacked_folder_name, walk), Located)

(***************************************************************************)
(* Custom dictionary.  The file store/custom_dictionary.txt is None while  *)
(* it does not exist, else the list of its lines (every write ends its     *)
(* text with a line break).                                                *)
(***************************************************************************)
\* the words asked to be added
WordInputs == {"x", " Biome ", "Golem", "recieve", "creepers\ngolem"}

default_words ==
    << "minecraft", "hotbar", "toolbar", "crafting", "redstone", "nether",
       "enderdragon", "creeper", "zombie", "skeleton", "enderman", "villager",
       "piglin", "blaze", "overworld", "stronghold", "dungeon", "mineshaft", "ravine",
       "bedrock", "obsidian", "netherite", "enchanting", "brewing", "potion",
       "respawn", "gamemode", "biome", "savanna", "taiga", "tundra", "mesa",
       "swampland", "pickaxe", "shovel", "hoe", "axe", "sword", "bow", "crossbow",
       "trident", "armor", "helmet", "chestplate", "leggings", "boots", "shield",
       "cobblestone", "sandstone", "blackstone", "deepslate", "diorite", "granite",
       "andesite", "spawner", "portal", "beacon", "hopper", "dispenser", "dropper",
       "piston", "minecart", "rail", "boat", "elytra", "firework", "rocket", "npc",
       "npcs", "codebuild", "codebuilder", "classroom", "worldbuilder", "immersive",
       "edu", "educational", "tutorial", "lesson", "activity", "sustainability",
       "biome", "ecosystem", "biodiversity" >>

\* the lines that writing text \o "\n" adds to a file
WrittenLines(text) == splitsep(text, "\n")

\* the file after create_default_custom_dictionary
create_default_custom_dictionary ==
    Some(Flat([i \in 1..Len(default_words) |-> WrittenLines(lower(default_words[i]))]))

\* the file after load_custom_dictionary: it is created on first use
DictAfterLoad(dict_file) ==
    IF dict_file = None THEN create_default_custom_dictionary ELSE dict_file

NotBlank(line) == strip(line) # ""

StripLower(line) == lower(strip(line))

\* the words read from one line of a dictionary file: a carriage return ends
\* a line too when a text file is read
WordsOfLine(line) ==
    LET kept == SelectSeq(splitsep(line, "\r"), NotBlank)
    IN  [i \in 1..Len(kept) |-> StripLower(kept[i])]

\* the lines the dictionary file can hold: the default ones and those of the
\* words asked to be added
DictionaryLines ==
    {create_default_custom_dictionary[1][i] :
        i \in 1..Len(create_default_custom_dictionary[1])}
        \cup UNION {{WrittenLines(strip(lower(w)))[i] :
                        i \in 1..Len(WrittenLines(strip(lower(w))))} : w \in WordInputs}

KnownLineWords == [line \in DictionaryLines |-> WordsOfLine(line)]

LineWords(line) == LookUp(KnownLineWords, line, WordsOfLine)

\* the words read from the lines of a dictionary file
WordsOfLines(lines) == Flat([i \in 1..Len(lines) |-> LineWords(lines[i])])

\* the list load_custom_dictionary returns
load_custom_dictionary(dict_file) == WordsOfLines(DictAfterLoad(dict_file)[1])

InList(x, list) == \E i \in 1..Len(list) : list[i] = x

\* add_word_to_custom_dictionary: the returned pair and the file afterwards
add_word_to_custom_dictionary(dict_file, raw_word) ==
    LET word == strip(lower(raw_word))
        existing_words == load_custom_dictionary(dict_file)
        loaded == DictAfterLoad(dict_file)
    IN  IF word = "" \/ Len(word) < 2
        THEN [success |-> FALSE, message |-> "Word must be at least 2 characters long",
              word |-> word, dict |-> dict_file]
        ELSE IF InList(word, existing_words)
        THEN [success |-> FALSE, message |-> "Word already exists in custom dictionary",
              word |-> word, dict |-> loaded]
        ELSE [success |-> TRUE,
              message |-> "Successfully added '" \o word \o "' to custom dictionary",
              word |-> word, dict |-> Some(loaded[1] \o WrittenLines(word))]

\* the file opened for writing and the line of the word written
OverwrittenFile(dict_file, word) == Some(WrittenLines(word))

\* the file opened for appending, which creates it when it is not there, and
\* the line of the word written
AppendedFile(dict_file, word) ==
    Some((IF dict_file = None THEN <<>> ELSE dict_file[1]) \o WrittenLines(word))

\* get_custom_dictionary_words is sorted(load_custom_dictionary()); its
\* length is the size the program reports
custom_dictionary_size(dict_file) == Len(load_custom_dictionary(dict_file))

(***************************************************************************)
(* Spelling analyzer.  The pyspellchecker library is outside the program:  *)
(* its word list is BaseDictionary, unknown() returns the lower-cased      *)
(* words that are not in the word list (to which load_words has added the  *)
(* custom words), in a set whose iteration order is not fixed, and         *)
(* candidates() returns None, raises, or returns some corrections.         *)
(***************************************************************************)
BaseDictionary ==
    { "welcome", "explorer", "let's", "learn", "about", "renewable", "energy", "today",
      "the", "has", "value", "and", "near", "press", "button", "your", "are", "here",
      "help", "you", "all", "matter", "water", "plants", "animals", "these", "five",
      "ideas", "photosynthesis", "respiration", "line", "edited", "text", "this" }

SpellOutcomes ==
    { [init |-> "raise", unknown |-> "ok", candidates |-> "none"],
      [init |-> "ok", unknown |-> "raise", candidates |-> "none"],
      [init |-> "ok", unknown |-> "ok", candidates |-> "none"],
      [init |-> "ok", unknown |-> "ok", candidates |-> "raise"],
      [init |-> "ok", unknown |-> "ok", candidates |-> "one"],
      [init |-> "ok", unknown |-> "ok", candidates |-> "six"] }

SpellErrorText == "dictionary resource could not be read"

\* list(spell.candidates(word))[:5], [] when it is None or raises
suggestions(word, candidates) ==
    LET found == IF candidates = "one" THEN <<word \o "1">>
                 ELSE IF candidates = "six"
                 THEN [i \in 1..6 |-> word \o str(i)]
                 ELSE <<>>
    IN  SubSeq(found, 1, IF Len(found) < 5 THEN Len(found) ELSE 5)

\* spell.unknown(words) once load_words(custom_dict) has been called
unknown(words, custom_dict) ==
    {lower(words[i]) : i \in 1..Len(words)}
        \ (BaseDictionary \cup {lower(custom_dict[i]) : i \in 1..Len(custom_dict)})

\* a count that takes every word for used once
UsedOnce(words, word) == 1

\* a count that finds no word
NeverUsed(words, word) == 0

context_usage(words, word) ==
    Cardinality({i \in 1..Len(words) : lower(words[i]) = lower(word)})

RECURSIVE InsertByUsage(_, _)
InsertByUsage(sorted, x) ==
    IF sorted = <<>> THEN <<x>>
    ELSE IF Head(sorted).context_usage >= x.context_usage
         THEN <<Head(sorted)>> \o InsertByUsage(Tail(sorted), x)
    ELSE <<x>> \o sorted

RECURSIVE SortByUsageDesc(_, _)
\* list.sort(key=lambda x: x['context_usage'], reverse=True), a stable sort
SortByUsageDesc(results, sorted) ==
    IF results = <<>> THEN sorted
    ELSE SortByUsageDesc(Tail(results), InsertByUsage(sorted, Head(results)))

IsCommonError(r) == r.context_usage > 1

IsUniqueError(r) == r.context_usage = 1

(***************************************************************************)
(* Python floats.  A positive float is its 53 significant bits, the first  *)
(* of them 1, and the number of those bits that stand after the binary     *)
(* point: [mant |-> bits, scale |-> s] is the number mant * 2^(-s).  Every *)
(* operation rounds its exact result to 53 bits, a tie to the even one.    *)
(***************************************************************************)
\* the bits of n + 1
Increment(bits) ==
    IF \A i \in 1..Len(bits) : bits[i] = 1 THEN <<1>> \o [i \in 1..Len(bits) |-> 0]
    ELSE LET p == CHOOSE q \in 1..Len(bits) :
                      bits[q] = 0 /\ \A j \in (q + 1)..Len(bits) : bits[j] = 1
         IN  [i \in 1..Len(bits) |-> IF i < p THEN bits[i] ELSE IF i = p THEN 1 ELSE 0]

\* the bits of n at a length of n bits
PadLeft(bits, n) == [i \in 1..(n - Len(bits)) |-> 0] \o bits

\* the bits of n without the zeros before its first 1
Strip(bits) ==
    IF \A i \in 1..Len(bits) : bits[i] = 0 THEN <<>>
    ELSE SubSeq(bits, CHOOSE p \in 1..Len(bits) : bits[p] = 1 /\ \A j \in 1..(p - 1) : bits[j] = 0,
                Len(bits))

\* 2^k for k up to 14
Pow2Table == <<1, 2, 4, 8, 16, 32, 64, 128, 256, 512, 1024, 2048, 4096, 8192, 16384>>

Pow2(k) == Pow2Table[k + 1]

RECURSIVE ToInt(_)
ToInt(bits) ==
    IF bits = <<>> THEN 0 ELSE 2 * ToInt(SubSeq(bits, 1, Len(bits) - 1)) + bits[Len(bits)]

\* a long number is handled in limbs of LimbBits bits, the first limb the
\* most significant one, so that a limb times a small factor stays in range
LimbBits == Len(Pow2Table) - 1

ToLimbs(bits) ==
    [i \in 1..((Len(bits) + LimbBits - 1) \div LimbBits) |->
        ToInt(SubSeq(PadLeft(bits, LimbBits * ((Len(bits) + LimbBits - 1) \div LimbBits)),
                     LimbBits * (i - 1) + 1, LimbBits * i))]

FromLimbs(limbs) ==
    [i \in 1..(LimbBits * Len(limbs)) |->
        (limbs[((i - 1) \div LimbBits) + 1] \div Pow2(LimbBits - 1 - ((i - 1) % LimbBits))) % 2]

RECURSIVE TimesLimbs(_, _, _)
\* the limbs of n * k + carry for a factor k below 2^LimbBits
TimesLimbs(limbs, k, carry) ==
    IF limbs = <<>> THEN (IF carry = 0 THEN <<>> ELSE <<carry>>)
    ELSE TimesLimbs(SubSeq(limbs, 1, Len(limbs) - 1), k,
                    (limbs[Len(limbs)] * k + carry) \div Pow2(LimbBits))
             \o <<(limbs[Len(limbs)] * k + carry) % Pow2(LimbBits)>>

\* the bits of n * k
TimesSmall(bits, k) == Strip(FromLimbs(TimesLimbs(ToLimbs(bits), k, 0)))

\* the float nearest to bits * 2^(-scale), where more is TRUE when the exact
\* number is above it by less than one unit of the last bit
RoundToFloat(bits, scale, more) ==
    LET kept == SubSeq(bits, 1, 53)
        dropped == SubSeq(bits, 54, Len(bits))
        above_half == dropped # <<>> /\ dropped[1] = 1
                      /\ (more \/ \E k \in 2..Len(dropped) : dropped[k] = 1)
        at_half == dropped # <<>> /\ dropped[1] = 1
                   /\ ~ more /\ \A k \in 2..Len(dropped) : dropped[k] = 0
        rounded == IF above_half \/ (at_half /\ kept[53] = 1) THEN Increment(kept) ELSE kept
    IN  IF Len(rounded) = 54
        THEN [mant |-> SubSeq(rounded, 1, 53), scale |-> scale - Len(dropped) - 1]
        ELSE [mant |-> rounded, scale |-> scale - Len(dropped)]

RECURSIVE RemainderAfter(_, _, _)
\* the remainder of a / b after n limbs of the quotient, for b below 2^16
RemainderAfter(a, b, n) ==
    IF n = 0 THEN a ELSE (RemainderAfter(a, b, n - 1) * Pow2(LimbBits)) % b

\* the n-th limb of the quotient after the binary point
QuotientLimb(a, b, n) == (RemainderAfter(a, b, n - 1) * Pow2(LimbBits)) \div b

\* the limbs the quotient is computed to: enough for its 53 significant
\* bits, one more and up to 16 zeros before them
QuotientLimbs == (53 + 1 + 16 + LimbBits - 1) \div LimbBits

\* the float a / b for integers 0 < a < b
FloatQuotient(a, b) ==
    RoundToFloat(Strip(FromLimbs([n \in 1..QuotientLimbs |-> QuotientLimb(a, b, n)])),
                 QuotientLimbs * LimbBits,
                 RemainderAfter(a, b, QuotientLimbs) # 0)

\* the float x * 100
FloatTimes100(x) == RoundToFloat(TimesSmall(x.mant, 100), x.scale, FALSE)

\* round(x, 1) in tenths, for a float x >= 1/10: the decimal of one place
\* nearest to the exact value of x, a tie going to the even one
RoundToTenths(x) ==
    LET times10 == TimesSmall(x.mant, 10)
        whole == ToInt(SubSeq(times10, 1, Len(times10) - x.scale))
        rest == SubSeq(times10, Len(times10) - x.scale + 1, Len(times10))
        above_half == rest # <<>> /\ rest[1] = 1 /\ \E k \in 2..Len(rest) : rest[k] = 1
        at_half == rest # <<>> /\ rest[1] = 1 /\ \A k \in 2..Len(rest) : rest[k] = 0
    IN  IF above_half \/ (at_half /\ whole % 2 = 1) THEN whole + 1 ELSE whole

\* round(((total_words - misspelled_count) / max(total_words, 1)) * 100, 1),
\* in tenths of a percent; the misspelled words are among the unique ones
accuracy_percentage(total_words, misspelled_count) ==
    IF total_words <= misspelled_count THEN 0
    ELSE IF misspelled_count = 0 THEN 1000
    ELSE RoundToTenths(FloatTimes100(FloatQuotient(total_words - misspelled_count, total_words)))

quality_level(accuracy) ==
    IF accuracy >= 950 THEN "Excellent"
    ELSE IF accuracy >= 900 THEN "Good"
    ELSE IF accuracy >= 800 THEN "Fair"
    ELSE "Needs Improvement"

get_spell_quality_description(accuracy, error_count) ==
    IF accuracy >= 950
    THEN "Excellent spelling quality with only " \o str(error_count)
         \o " potential error(s). Content is professional and ready for educational use."
    ELSE IF accuracy >= 900
    THEN "Good spelling quality with " \o str(error_count)
         \o " potential error(s). Minor review recommended before publication."
    ELSE IF accuracy >= 800
    THEN "Fair spelling quality with " \o str(error_count)
         \o " potential error(s). Review and correction recommended for educational content."
    ELSE "Spelling needs improvement with " \o str(error_count)
         \o " potential error(s). Comprehensive review required before educational use."

\* every order in which the elements of a set can be iterated
RECURSIVE Orderings(_)
Orderings(S) ==
    IF S = {} THEN {<<>>}
    ELSE UNION {{<<x>> \o rest : rest \in Orderings(S \ {x})} : x \in S}

\* the misspelled set of a spell check that reaches spell.unknown
MisspelledWords(text, dict_file) ==
    unknown(TextFacts(text).unique_words, load_custom_dictionary(dict_file))

\* perform_spell_check: the result, and the dictionary file afterwards (the
\* two loads create it on first use).  iteration is the order in which the
\* loop visits the misspelled set.
perform_spell_check(files, directories, unpacked_folder_name, walk, stat, readable, dict_file, spell, iteration) ==
    LET op == "perform_spell_check"
        Unchanged(r) == [result |-> r, dict |-> dict_file]
        Loaded(r) == [result |-> r, dict |-> DictAfterLoad(dict_file)]
        checked == <<"locate", "select", "size", "extract", "length", "words">>
        Checked(lang_files, english_files, non_english_files, largest_file, text, facts,
                custom_dict) ==
            LET described == largest_file.name \o " (" \o largest_file.language_code \o ")"
                spell_check_note ==
                    IF english_files # <<>>
                    THEN "Spell checking English language file: " \o described
                    ELSE WarningSign \o " No English language files found. Spell checking "
                         \o described \o " - results may include non-English words as errors."
                words == facts.words
                uniques == facts.unique_words
                misspelled == unknown(uniques, custom_dict)
                spell_results ==
                    SortByUsageDesc([i \in 1..Len(iteration) |->
                                        [ word |-> iteration[i],
                                          suggestions |-> suggestions(iteration[i], spell.candidates),
                                          context_usage |-> context_usage(words, iteration[i]) ]],
                                    <<>>)
                total_words == Len(uniques)
                misspelled_count == Cardinality(misspelled)
                accuracy == accuracy_percentage(total_words, misspelled_count)
                common_errors == SelectSeq(spell_results, IsCommonError)
                unique_errors == SelectSeq(spell_results, IsUniqueError)
                custom_words_used == SelectSeq(uniques, LAMBDA w : InList(lower(w), custom_dict))
            IN  IF facts.all_words = <<>>
                THEN Loaded(Failed(op, "No words found in the educational content after cleaning. Original text length: "
                                       \o str(Len(text)),
                                   checked \o <<"spell">>, Some(largest_file)))
                ELSE IF words = <<>>
                THEN Loaded(Failed(op, "No suitable words found for spell checking after filtering short words and numbers.",
                                   checked \o <<"spell">>, Some(largest_file)))
                ELSE IF spell.unknown = "raise"
                THEN Loaded(Failed(op, "Error finding misspelled words: " \o SpellErrorText,
                                   checked \o <<"spell">>, Some(largest_file)))
                ELSE Loaded(Result(op,
                        Some([ analyzed_file |->
                                   [ name |-> largest_file.name,
                                     path |-> largest_file.relative_path,
                                     size_kb |-> largest_file.size_kb,
                                     language_code |-> largest_file.language_code,
                                     is_english |-> largest_file.is_english,
                                     total_files_found |-> Len(lang_files),
                                     english_files_found |-> Len(english_files),
                                     non_english_files_found |-> Len(non_english_files),
                                     spell_check_note |-> spell_check_note ],
                               statistics |->
                                   [ total_unique_words |-> total_words,
                                     misspelled_words |-> misspelled_count,
                                     accuracy_percentage |-> accuracy,
                                     extracted_text_length |-> Len(text),
                                     common_errors_count |-> Len(common_errors),
                                     unique_errors_count |-> Len(unique_errors),
                                     custom_dictionary_words |-> Len(custom_dict),
                                     custom_words_used_count |-> Len(custom_words_used) ],
                               errors |->
                                   [ common_errors |-> common_errors,
                                     unique_errors |-> unique_errors,
                                     all_errors |-> spell_results ],
                               quality_assessment |->
                                   [ level |-> quality_level(accuracy),
                                     description |->
                                         get_spell_quality_description(accuracy, misspelled_count) ] ]),
                        None, checked \o <<"spell">>, Some(largest_file)))
        Extracted(lang_files, english_files, non_english_files, largest_file, text, facts) ==
            LET quoted == "'" \o largest_file.name \o "'"
            IN  IF text = ""
                THEN Unchanged(Failed(op, "Could not extract educational content from " \o quoted
                                          \o ". The file may contain only technical/system content or be corrupted.",
                                      <<"locate", "select", "size", "extract">>,
                                      Some(largest_file)))
                ELSE IF TooShort(facts)
                THEN Unchanged(Failed(op, "Insufficient educational content found in " \o quoted
                                          \o " (only " \o str(facts.chars)
                                          \o " characters of user-facing text). Spell checking requires at least 50 characters of educational content.",
                                      <<"locate", "select", "size", "extract", "length">>,
                                      Some(largest_file)))
                ELSE IF TooFewWords(facts)
                THEN Unchanged(Failed(op, "Insufficient educational content found in " \o quoted
                                          \o " (only " \o str(Len(facts.split))
                                          \o " words of user-facing text). Spell checking requires at least 15 words of educational content.",
                                      checked, Some(largest_file)))
                ELSE IF spell.init = "raise"
                THEN Unchanged(Failed(op, "Error initializing spell checker: " \o SpellErrorText,
                                      checked \o <<"spell">>, Some(largest_file)))
                ELSE Checked(lang_files, english_files, non_english_files, largest_file, text,
                             facts, load_custom_dictionary(dict_file))
        Selected(lang_files, english_files, non_english_files, largest_file) ==
            IF TooSmall(largest_file)
            THEN Unchanged(Failed(op, "The selected language file '" \o largest_file.name \o "' ("
                                      \o largest_file.language_code
                                      \o ") is too small (" \o HundredthsText(largest_file.size_kb)
                                      \o " KB) to provide meaningful spell checking. "
                                      \o language_summary(english_files, non_english_files)
                                      \o " Spell checking requires files with substantial text content.",
                                  <<"locate", "select", "size">>, Some(largest_file)))
            ELSE LET Read(text) ==
                         Extracted(lang_files, english_files, non_english_files, largest_file,
                                   text, TextFacts(text))
                 IN  Read(extract_text_from_lang_file(files, largest_file.full_path, readable))
        Separated(lang_files, english_files, non_english_files) ==
            Selected(lang_files, english_files, non_english_files,
                     IF english_files # <<>> THEN MaxBySize(english_files)
                     ELSE MaxBySize(lang_files))
        Located(lang_files) ==
            IF lang_files = <<>>
            THEN Unchanged(Failed(op, "No language files (.lang) were found in this unpacked world. Spell checking requires at least one .lang file to be present.",
                                  <<"locate">>, None))
            ELSE Separated(lang_files, SelectSeq(lang_files, IsEnglish),
                           SelectSeq(lang_files, IsNotEnglish))
        stat_called == StatCalled(directories, unpacked_folder_name, walk)
    IN  IF stat = "FileNotFoundError" /\ stat_called
        THEN Unchanged(Failed(op, "The unpacked world folder could not be found. Please ensure the world has been properly unpacked.",
                              <<"locate">>, None))
        ELSE IF stat = "PermissionError" /\ stat_called
        THEN Unchanged(Failed(op, "Permission denied when accessing language files. Please check file permissions.",
                              <<"locate">>, None))
        ELSE IF stat = "OSError" /\ stat_called
        THEN Unchanged(Failed(op, "Error during spell checking: " \o OSErrorText,
                              <<"locate">>, None))
        ELSE Bind(find_language_files(files, directories, unpacked_folder_name, walk), Located)

(***************************************************************************)
(* Editor operations on the files of an unpacked world.  An outcome is the *)
(* response, the files the handler has read and written, and the file      *)
(* system afterwards.  The operating system resolves a path to its         *)
(* normalised absolute form (the directories it passes through exist).     *)
(***************************************************************************)
exists(files, directories, p) == abspath(p) \in DOMAIN files \/ abspath(p) \in directories

\* os.path.dirname of a normalised absolute path
dirname(path) ==
    LET comps == Components(path)
    IN  "/" \o join("/", SubSeq(comps, 1, Len(comps) - 1))

FileOutcome(op, status, reads, writes, files) ==
    [response |-> [op |-> op, status |-> status, reads |-> reads, writes |-> writes],
     files |-> files]

\* the file system with content written to path
WriteFile(files, path, content) ==
    [q \in DOMAIN files \cup {path} |-> IF q = path THEN content ELSE files[q]]

api_get_file_content(files, directories, folder_name, file_path) ==
    LET op == "api_get_file_content"
        unpacked_folder == os_path_join(UNPACKED_FOLDER, folder_name)
        full_file_path == os_path_join(unpacked_folder, file_path)
    IN  IF file_path = ""
        THEN FileOutcome(op, "File path is required", {}, {}, files)
        ELSE IF ~ startswith(abspath(full_file_path), abspath(unpacked_folder))
        THEN FileOutcome(op, "Invalid file path", {}, {}, files)
        ELSE IF ~ exists(files, directories, full_file_path)
        THEN FileOutcome(op, "File not found", {}, {}, files)
        ELSE IF abspath(full_file_path) \notin DOMAIN files
        THEN FileOutcome(op, "Error reading file", {}, {}, files)
        ELSE FileOutcome(op, "success", {abspath(full_file_path)}, {}, files)

api_save_file_content(files, directories, folder_name, file_path, content) ==
    LET op == "api_save_file_content"
        unpacked_folder == os_path_join(UNPACKED_FOLDER, folder_name)
        full_file_path == os_path_join(unpacked_folder, file_path)
        target == abspath(full_file_path)
        backup_path == abspath(full_file_path \o ".backup")
    IN  IF file_path = ""
        THEN FileOutcome(op, "File path and content are required", {}, {}, files)
        ELSE IF ~ startswith(target, abspath(unpacked_folder))
        THEN FileOutcome(op, "Invalid file path", {}, {}, files)
        ELSE IF target \in directories \/ dirname(target) \notin directories
        THEN FileOutcome(op, "Error saving file", {}, {}, files)
        ELSE IF target \in DOMAIN files
        THEN FileOutcome(op, "success", {target}, {backup_path, target},
                         WriteFile(WriteFile(files, backup_path, files[target]), target, content))
        ELSE FileOutcome(op, "success", {}, {target}, WriteFile(files, target, content))

\* view_language_file and download_language_file share their checks
LanguageFileRequest(op, files, directories, folder_name, file_path) ==
    LET unpacked_path == os_path_join(UNPACKED_FOLDER, folder_name)
        full_path == os_path_join(unpacked_path, file_path)
    IN  IF commonpath(full_path, unpacked_path) = None
        THEN FileOutcome(op, "Error reading file", {}, {}, files)
        ELSE IF commonpath(full_path, unpacked_path) # Some(unpacked_path)
        THEN FileOutcome(op, "Invalid file path", {}, {}, files)
        ELSE IF ~ exists(files, directories, full_path) \/ ~ endswith(lower(full_path), ".lang")
        THEN FileOutcome(op, "Language file not found", {}, {}, files)
        ELSE IF abspath(full_path) \notin DOMAIN files
        THEN FileOutcome(op, "Error reading file", {}, {}, files)
        ELSE FileOutcome(op, "success", {abspath(full_path)}, {}, files)

view_language_file(files, directories, folder_name, file_path) ==
    LanguageFileRequest("view_language_file", files, directories, folder_name, file_path)

download_language_file(files, directories, folder_name, file_path) ==
    LanguageFileRequest("download_language_file", files, directories, folder_name, file_path)

(***************************************************************************)
(* The editor's spell check of a text.  nltk.word_tokenize is outside the  *)
(* program: it separates the words from the punctuation around them.       *)
(***************************************************************************)
TokenChars == WordChars \cup {"-"}

SeparatePunctuationAt(s, i) ==
    IF Char(s, i) \in (TokenChars \cup Whitespace) THEN Char(s, i) ELSE " " \o Char(s, i) \o " "

word_tokenize(text) == split(Rewrite(text, SeparatePunctuationAt))

EditorWord(w) == isalpha(w) /\ Len(w) > 1

\* the "LINE_n: value" line the editor collects for the line numbered n
EditorLine(raw_line, n) ==
    LET line == strip(raw_line)
    IN  IF line = "" \/ startswith(line, "#") \/ startswith(line, "//") \/ ~ contains(line, "=")
        THEN ""
        ELSE IF is_educational_content(KeyOf(line), ValueOf(line))
        THEN "LINE_" \o str(n) \o ": " \o ValueOf(line) \o "\n"
        ELSE ""

\* the custom words the editor loads: those of the file custom_dictionary.txt
\* of the working directory, when there is one
EditorCustomWords(files) ==
    IF abspath("custom_dictionary.txt") \in DOMAIN files
    THEN WordsOfLines(splitsep(files[abspath("custom_dictionary.txt")], "\n"))
    ELSE <<>>

api_spell_check_content(files, content) ==
    LET op == "api_spell_check_content"
        lines == splitsep(content, "\n")
        educational_text == Cat([n \in 1..Len(lines) |-> EditorLine(lines[n], n)])
        words == SelectSeq(word_tokenize(lower(educational_text)), EditorWord)
        misspelled == unknown(words, EditorCustomWords(files))
    IN  IF content = ""
        THEN [op |-> op, status |-> "Content is required", misspelled |-> {}, total_words |-> 0]
        ELSE IF educational_text = ""
        THEN [op |-> op, status |-> "success", misspelled |-> {}, total_words |-> 0]
        ELSE [op |-> op, status |-> "success", misspelled |-> misspelled,
              total_words |-> Len(words)]

(***************************************************************************)
(* The world store.  An uploaded archive is a file of store/, an unpacked  *)
(* world a folder of unpacked/; metadata is the list of world records of   *)
(* store/metadata.json, unpacked_metadata the list of unpacked records of  *)
(* unpacked/metadata.json.  An archive is the text ZipMagic followed by    *)
(* its members, each a name, a tab, the content and a form feed; any other *)
(* text is not a zip file.  Sizes are in hundredths of a megabyte, now is  *)
(* the clock in seconds.                                                   *)
(***************************************************************************)
ALLOWED_EXTENSIONS == {"mcworld", "mctemplate"}

\* the index of the last "." of s, 0 when it has none
LastDot(s) ==
    IF \E i \in 1..Len(s) : Char(s, i) = "."
    THEN CHOOSE i \in 1..Len(s) :
             Char(s, i) = "." /\ \A j \in (i + 1)..Len(s) : Char(s, j) # "."
    ELSE 0

\* s.rsplit('.', 1)[0]
BeforeLastDot(s) == IF LastDot(s) = 0 THEN s ELSE SubSeq(s, 1, LastDot(s) - 1)

\* s.rsplit('.', 1)[1] of an s that holds a "."
AfterLastDot(s) == SubSeq(s, LastDot(s) + 1, Len(s))

allowed_file(filename) ==
    LastDot(filename) > 0 /\ lower(AfterLastDot(filename)) \in ALLOWED_EXTENSIONS

\* os.path.splitext of a name without directories: the extension starts at
\* the last dot unless only dots come before it
splitext(name) ==
    LET d == LastDot(name)
    IN  IF d = 0 \/ \A i \in 1..(d - 1) : Char(name, i) = "."
        THEN <<name, "">>
        ELSE <<SubSeq(name, 1, d - 1), SubSeq(name, d, Len(name))>>

SafeChars == Letters \cup Digits \cup CharsOf("_.-")

\* werkzeug's secure_filename of an ASCII name: path separators become
\* blanks, runs of blanks one "_", other characters are dropped and the
\* dots and underscores at both ends are stripped
secure_filename(filename) ==
    LET spaced == Rewrite(filename, LAMBDA t, i : IF Char(t, i) = "/" THEN " " ELSE Char(t, i))
        joined == join("_", split(spaced))
        kept   == Rewrite(joined, LAMBDA t, i : IF Char(t, i) \in SafeChars THEN Char(t, i) ELSE "")
        from   == RunEnd(kept, 1, CharsOf("._"))
        to     == IF from > Len(kept) THEN 0 ELSE RunStart(kept, Len(kept), CharsOf("._")) - 1
    IN  SubSeq(kept, from, to)

\* datetime.now().strftime('%Y%m%d_%H%M%S')
Timestamp(now) == "20240101_00000" \o str(now)

\* datetime.now().isoformat()
IsoFormat(now) == "2024-01-01T00:00:0" \o str(now)

StoreRoot == abspath(UPLOAD_FOLDER)

UnpackedRoot == abspath(UNPACKED_FOLDER)

\* the file os.path.join(UPLOAD_FOLDER, filename) of a name without directories
StorePath(filename) == os_path_join(StoreRoot, filename)

\* the folder os.path.join(UNPACKED_FOLDER, folder_name)
UnpackedPath(folder_name) == os_path_join(UnpackedRoot, folder_name)

\* os.path.exists of a normalised absolute path
path_exists(files, directories, path) == path \in DOMAIN files \/ path \in directories

\* round(size_bytes / (1024 * 1024), 2)
SizeMb(size_bytes) == RoundDiv(size_bytes * 100, 1024 * 1024)

get_file_size_mb(files, path) == SizeMb(Len(files[path]))

FilesInside(files, root) == {p \in DOMAIN files : Inside(p, root)}

RECURSIVE TotalSize(_, _)
TotalSize(files, paths) ==
    IF paths = {} THEN 0
    ELSE LET p == CHOOSE q \in paths : TRUE
         IN  Len(files[p]) + TotalSize(files, paths \ {p})

get_folder_size_mb(files, root) == SizeMb(TotalSize(files, FilesInside(files, root)))

ZipMagic == "PK"

ZipEntry(name, content) == name \o "\t" \o content \o "\f"

\* zipfile.ZipFile(path, 'r') raises BadZipFile on a file that is no archive
IsZip(content) == startswith(content, ZipMagic)

\* the members of an archive, in its order
ZipMembers(content) ==
    LET pieces == SelectSeq(splitsep(SubSeq(content, Len(ZipMagic) + 1, Len(content)), "\f"),
                            LAMBDA piece : piece # "")
    IN  [i \in 1..Len(pieces) |->
            LET tab == WordEnd(pieces[i], 1, {"\t"})
            IN  [name |-> SubSeq(pieces[i], 1, tab - 1),
                 content |-> SubSeq(pieces[i], tab + 1, Len(pieces[i]))]]

\* the directories from root down to the one that holds path
DirsDownTo(root, path) ==
    {root} \cup {SubSeq(path, 1, i - 1) : i \in {j \in (Len(root) + 1)..Len(path) : Char(path, j) = "/"}}

\* ZipFile.extractall(root): every member is written below root, with the
\* directories it needs; an archive without members creates nothing
extractall(files, directories, root, members) ==
    LET target(i) == root \o "/" \o members[i].name
        written   == {target(i) : i \in 1..Len(members)}
        lastOf(p) == CHOOSE i \in 1..Len(members) :
                         target(i) = p /\ \A j \in (i + 1)..Len(members) : target(j) # p
    IN  [files |-> [p \in DOMAIN files \cup written |->
                       IF p \in written THEN members[lastOf(p)].content ELSE files[p]],
         directories |-> directories \cup UNION {DirsDownTo(root, p) : p \in written}]

\* shutil.rmtree(root)
rmtree(files, directories, root) ==
    [files |-> [p \in DOMAIN files \ FilesInside(files, root) |-> files[p]],
     directories |-> {d \in directories : ~ Inside(d, root)}]

\* os.remove(path)
RemoveFile(files, path) == [p \in DOMAIN files \ {path} |-> files[p]]

\* the archive that zipfile writes from the files of root, in the order walk
\* of os.walk
ZipOf(files, root, walk) ==
    ZipMagic \o Cat([i \in 1..Len(walk) |->
                        ZipEntry(SubSeq(walk[i], Len(root) + 2, Len(walk[i])), files[walk[i]])])

\* the index of the first record with the id, 0 when there is none
IndexOfId(records, id) ==
    IF \E i \in 1..Len(records) : records[i].id = id
    THEN CHOOSE i \in 1..Len(records) :
             records[i].id = id /\ \A j \in 1..(i - 1) : records[j].id # id
    ELSE 0

\* the list without its element at index
Pop(records, index) ==
    [i \in 1..(Len(records) - 1) |-> IF i < index THEN records[i] ELSE records[i + 1]]

\* the list with its element at index replaced
Put(records, index, record) == [records EXCEPT ![index] = record]

add_file_metadata(files, metadata, filename, original_filename, username, now) ==
    Append(metadata,
           [id |-> Len(metadata) + 1,
            filename |-> filename,
            original_filename |-> original_filename,
            uploaded_by |-> username,
            upload_date |-> IsoFormat(now),
            file_size_mb |-> get_file_size_mb(files, StorePath(filename)),
            file_type |-> lower(AfterLastDot(filename)),
            unpacked |-> FALSE,
            unpacked_folder |-> None,
            repacked_from |-> None,
            repacked_date |-> None])

StoreOutcome(op, success, message, files, directories, metadata, unpacked_metadata) ==
    [response |-> [op |-> op, success |-> success, message |-> message],
     files |-> files, directories |-> directories,
     metadata |-> metadata, unpacked_metadata |-> unpacked_metadata]

\* the upload of the archive content under the name original_filename
upload_world(files, directories, metadata, unpacked_metadata, original_filename, content, username, now) ==
    LET filename == Timestamp(now) \o "_" \o secure_filename(original_filename)
        saved    == WriteFile(files, StorePath(filename), content)
    IN  IF original_filename = ""
        THEN StoreOutcome("upload_world", FALSE, "No file selected",
                          files, directories, metadata, unpacked_metadata)
        ELSE IF allowed_file(original_filename)
        THEN StoreOutcome("upload_world", TRUE,
                          "Successfully uploaded \"" \o original_filename \o "\"",
                          saved, directories,
                          add_file_metadata(saved, metadata, filename, original_filename,
                                            username, now),
                          unpacked_metadata)
        ELSE StoreOutcome("upload_world", FALSE,
                          "Invalid file type. Please upload .mcworld or .mctemplate files only.",
                          files, directories, metadata, unpacked_metadata)

\* some unpacked record of the world has its folder on disk
unpacked_exists(files, directories, unpacked_metadata, world_id) ==
    \E i \in 1..Len(unpacked_metadata) :
        /\ unpacked_metadata[i].original_world_id = world_id
        /\ path_exists(files, directories, UnpackedPath(unpacked_metadata[i].folder_name))

unpack_world(files, directories, metadata, unpacked_metadata, world_id, username, now) ==
    LET index   == IndexOfId(metadata, world_id)
        world   == metadata[index]
        \* the flag of a world whose unpacked copy is gone is reset and saved
        reset   == Put(metadata, index, [world EXCEPT !.unpacked = FALSE])
        folder_name   == Timestamp(now) \o "_" \o BeforeLastDot(world.original_filename)
        unpacked_path == UnpackedPath(folder_name)
        world_file_path == StorePath(world.filename)
        extracted == extractall(files, directories, unpacked_path,
                                ZipMembers(files[world_file_path]))
        unpacked_info ==
            [id |-> Len(unpacked_metadata) + 1,
             original_world_id |-> world_id,
             folder_name |-> folder_name,
             original_filename |-> world.original_filename,
             unpacked_by |-> username,
             unpacked_date |-> IsoFormat(now),
             folder_size_mb |-> get_folder_size_mb(extracted.files, unpacked_path),
             file_type |-> world.file_type]
        removed == rmtree(files, directories, unpacked_path)
    IN  IF index = 0
        THEN StoreOutcome("unpack_world", FALSE, "World not found",
                          files, directories, metadata, unpacked_metadata)
        ELSE IF world.unpacked
                /\ unpacked_exists(files, directories, unpacked_metadata, world_id)
        THEN StoreOutcome("unpack_world", FALSE, "World is already unpacked",
                          files, directories, metadata, unpacked_metadata)
        ELSE IF world_file_path \notin DOMAIN files
        THEN StoreOutcome("unpack_world", FALSE,
                          "Error unpacking world: [Errno 2] No such file or directory: '"
                              \o os_path_join(UPLOAD_FOLDER, world.filename) \o "'",
                          removed.files, removed.directories, reset, unpacked_metadata)
        ELSE IF ~ IsZip(files[world_file_path])
        THEN StoreOutcome("unpack_world", FALSE, "Invalid or corrupted world file",
                          files, directories, reset, unpacked_metadata)
        ELSE StoreOutcome("unpack_world", TRUE,
                          "Successfully unpacked \"" \o world.original_filename \o "\"",
                          extracted.files, extracted.directories,
                          Put(metadata, index,
                              [world EXCEPT !.unpacked = TRUE,
                                            !.unpacked_folder = Some(folder_name)]),
                          Append(unpacked_metadata, unpacked_info))

get_unpacked_world_by_id(unpacked_metadata, unpacked_id) ==
    IF IndexOfId(unpacked_metadata, unpacked_id) = 0 THEN None
    ELSE Some(unpacked_metadata[IndexOfId(unpacked_metadata, unpacked_id)])

\* the first version of original_name, stored or not
FirstVersion(existing_metadata, original_name, version) ==
    splitext(original_name)[1] \o "_v" \o str(version) \o splitext(original_name)[2]

\* the name of the next version of original_name
RECURSIVE VersionedName(_, _, _)
VersionedName(existing_metadata, original_name, version) ==
    LET versioned_name == splitext(original_name)[1] \o "_v" \o str(version)
                              \o splitext(original_name)[2]
    IN  IF \E i \in 1..Len(existing_metadata) :
               existing_metadata[i].original_filename = versioned_name
        THEN VersionedName(existing_metadata, original_name, version + 1)
        ELSE versioned_name

\* what can go wrong in a repack: nothing, the writing of the archive once
\* its file is created, or the saving of the metadata
RepackFaults == {"none", "zip", "save"}

\* fault is what goes wrong, walk the order of os.walk on the folder
repack_world(files, directories, metadata, unpacked_metadata, unpacked_id, username, now, walk, fault) ==
    LET found == get_unpacked_world_by_id(unpacked_metadata, unpacked_id)
        unpacked_world == found[1]
        unpacked_path  == UnpackedPath(unpacked_world.folder_name)
        repacked_filename == VersionedName(metadata, unpacked_world.original_filename, 1)
        repacked_path  == StorePath(repacked_filename)
        zipped == WriteFile(files, repacked_path, ZipOf(files, unpacked_path, walk))
        world_info ==
            [id |-> Len(metadata) + 1,
             filename |-> repacked_filename,
             original_filename |-> repacked_filename,
             uploaded_by |-> username,
             upload_date |-> IsoFormat(now),
             file_size_mb |-> get_file_size_mb(zipped, repacked_path),
             file_type |-> unpacked_world.file_type,
             unpacked |-> FALSE,
             unpacked_folder |-> None,
             repacked_from |-> Some(unpacked_world.id),
             repacked_date |-> Some(IsoFormat(now))]
    IN  IF found = None
        THEN StoreOutcome("repack_world", FALSE, "Unpacked world not found",
                          files, directories, metadata, unpacked_metadata)
        ELSE IF ~ path_exists(files, directories, unpacked_path)
        THEN StoreOutcome("repack_world", FALSE, "Unpacked world folder not found",
                          files, directories, metadata, unpacked_metadata)
        ELSE IF fault # "none"
        THEN StoreOutcome("repack_world", FALSE, "Error repacking world: " \o fault,
                          RemoveFile(files, repacked_path), directories,
                          metadata, unpacked_metadata)
        ELSE StoreOutcome("repack_world", TRUE,
                          "Successfully repacked as \"" \o repacked_filename \o "\"",
                          zipped, directories, Append(metadata, world_info),
                          unpacked_metadata)

delete_world(files, directories, metadata, unpacked_metadata, world_id) ==
    LET world_index == IndexOfId(metadata, world_id)
        world == metadata[world_index]
    IN  IF world_index = 0
        THEN StoreOutcome("delete_world", FALSE, "World not found",
                          files, directories, metadata, unpacked_metadata)
        ELSE StoreOutcome("delete_world", TRUE,
                          "Successfully deleted \"" \o world.original_filename \o "\"",
                          RemoveFile(files, StorePath(world.filename)), directories,
                          Pop(metadata, world_index), unpacked_metadata)

\* the unpacked records whose world is stored and whose folder is on disk
clean_unpacked_metadata(files, directories, metadata, unpacked_metadata) ==
    SelectSeq(unpacked_metadata,
              LAMBDA unpacked_world :
                  /\ \E i \in 1..Len(metadata) : metadata[i].id = unpacked_world.original_world_id
                  /\ path_exists(files, directories, UnpackedPath(unpacked_world.folder_name)))

\* the world records, the flag reset of every world without an unpacked copy
verify_unpacked_status(files, directories, metadata, unpacked_metadata) ==
    [i \in 1..Len(metadata) |->
        IF metadata[i].unpacked
           /\ ~ unpacked_exists(files, directories, unpacked_metadata, metadata[i].id)
        THEN [metadata[i] EXCEPT !.unpacked = FALSE]
        ELSE metadata[i]]

\* the dashboard page cleans the unpacked records, then the flags
dashboard(files, directories, metadata, unpacked_metadata) ==
    LET cleaned == clean_unpacked_metadata(files, directories, metadata, unpacked_metadata)
    IN  StoreOutcome("dashboard", TRUE, "",
                     files, directories,
                     verify_unpacked_status(files, directories, metadata, cleaned),
                     cleaned)

(***************************************************************************)
(* The program as a state machine.  Its state is what it keeps on disk:    *)
(* the files and directories below the working directory (the custom       *)
(* dictionary store/custom_dictionary.txt apart, as dict_file).  Requests  *)
(* are served one at a time: last is the response of the request served    *)
(* last, until it is handed to the caller.  added is the set of words the  *)
(* program has answered it added, saves the number of saves served.        *)
(* metadata and unpacked_metadata are the lists kept in store/metadata.json *)
(* and unpacked/metadata.json, clock is the time in seconds.  threads holds *)
(* the dictionary requests that are served at the same time, each with the *)
(* place it has reached in its handler.                                    *)
(***************************************************************************)
VARIABLES files, directories, dict_file, last, added, saves, metadata, unpacked_metadata, clock, threads

storeVars == <<metadata, unpacked_metadata, clock>>

vars == <<files, directories, dict_file, last, added, saves, storeVars, threads>>

Idle == [op |-> "idle"]

\* most .lang files of a world
MaxLangFiles == 2

\* most lines added to the custom dictionary
MaxAdded == 3

\* most saves of the editor
MaxSaves == 2

WorldFolder == "t1_castle"

SiblingFolder == "t1_castle2"

OtherFolder == "t2_fort"

WorldRoot(folder_name) == abspath(os_path_join(UNPACKED_FOLDER, folder_name))

LangPaths == {WorldRoot(WorldFolder) \o "/texts/" \o name : name \in LangNames}

NotesPath == WorldRoot(WorldFolder) \o "/notes.txt"

\* the outcomes of the two textstat scores, in hundredths
Grades == {50, 650, 1250}

Eases == {2500, 6500, 9500}

TextstatOutcomes == {TextstatRaises} \cup {TextstatScores(g, e) : g \in Grades, e \in Eases}

\* what the operating system and the library do to a call of the analysis:
\* at most one fault
AnalysisEnvironments ==
    {[stat |-> "ok", readable |-> TRUE, textstat |-> t] : t \in TextstatOutcomes}
        \cup {[stat |-> s, readable |-> TRUE, textstat |-> TextstatRaises] : s \in StatOutcomes}
        \cup {[stat |-> "ok", readable |-> FALSE, textstat |-> TextstatRaises]}

NoSpellFault == [init |-> "ok", unknown |-> "ok", candidates |-> "none"]

\* the same for a call of the spell check
SpellEnvironments ==
    {[stat |-> "ok", readable |-> TRUE, spell |-> o] : o \in SpellOutcomes}
        \cup {[stat |-> s, readable |-> TRUE, spell |-> NoSpellFault] : s \in StatOutcomes}
        \cup {[stat |-> "ok", readable |-> FALSE, spell |-> NoSpellFault]}

\* the texts sent by the editor
EditorContents == {"", "gui.ok=OK\n", "npc.a=The golem and the recieve button are here\n"}

SaveContents == {Size99, "npc.a=This text has been edited\n"}

\* the file paths requested of the editor
FilePaths ==
    { "", "texts/en_US.lang", "notes.txt", "new.lang", "texts", "missing/new.lang",
      "../t2_fort/texts/en_US.lang", "../t1_castle2/texts/en_US.lang",
      "/app/unpacked/t2_fort/texts/en_US.lang" }

\* a file of n bytes that holds a comment only
Filler(n) == Cat([i \in 1..n |-> "#"])

\* the files a world can hold when the locator is run on its own, and their sizes
LocatorNames == {"xx_xx.lang", "en_us.lang", "en_gb.lang"}

LocatorPaths == {WorldRoot(WorldFolder) \o "/texts/" \o name : name \in LocatorNames}

LocatorSizes == {200, 500, 800}

\* the keys and values the classifier is asked about
ClassifierKeys ==
    { "npc.greeting.01", "NPC.Greeting.02", "tile.title.x", "xnpc.y",
      "item.diamond_pickaxe.name", "gui.ok" }

ClassifierValues ==
    { "Hello, welcome to the sustainability lab!", "minecraft:diamond_pickaxe",
      "OK", " a ", "12,500", "1 250.75", "12:30", "1! 2!", ". . . .",
      "{count} items left", "Textures/blocks/stone", "see [page] two",
      "Welcome", "Welcome!", "Unhelpful.", "Stone", "Diamond Sword", "lava pit",
      "Mine the ore", "Come on", "one two three four" }

\* the lines of the files the extractor is run on: entries that are kept,
\* a comment, a blank line, a line without separator, and entries that the
\* classifier or the final quality check drops
ExtractorLines ==
    { "npc.a=Welcome to the energy lesson.",
      "sign.b=§aLearn about %d biomes today",
      "  gui.i = Press the button to start  ",
      "# npc.c=A comment about the lesson",
      "",
      "Just a line without the separator",
      "npc.d=Sustainability biodiversity",
      "npc.e=100 2000 30000 400000",
      "npc.h=a b c",
      "item.f=minecraft:stone",
      "npc.g=" }

\* most lines of such a file
MaxLines == 2

ExtractorContents ==
    {join("\n", lines) : lines \in UNION {[1..n -> ExtractorLines] : n \in 0..MaxLines}}

ExtractorPath == WorldRoot(WorldFolder) \o "/texts/en_US.lang"

MissingPath == WorldRoot(WorldFolder) \o "/texts/en_GB.lang"

\* the scores textstat gives when the analyzer is run on its own, in
\* hundredths: grades and ease scores on both sides of every threshold
GradeInputs ==
    { -250, 0, 50, 100, 101, 150, 250, 349, 350, 600, 601, 800, 801, 900, 1150, 1200, 1201,
      1400, 1600, 1601, 2000 }

EaseInputs ==
    { -1000, 2999, 3000, 3500, 4500, 4999, 5000, 5999, 6000, 7000, 8000, 8999, 9000, 12000 }

\* the text the analyzer is given: the one extracted from the lesson
LessonText == KnownContentFacts[RichLesson].text

\* the values the cleaner is given: three pieces in a row, among them format
\* codes, a marker on its own and a marker before a character that is no code
CleanerPieces == {"", "Go", " up.", "§a", "§l", "§", "a", "§z"}

CleanerValues == {p \o q \o r : p \in CleanerPieces, q \in CleanerPieces, r \in CleanerPieces}

\* the numbers of unique words the statistics of a spell check are drawn for
QualityTotals == {0, 1, 2, 3, 16, 20, 80, 100}

\* the contents of the files of a world that holds several .lang files
SeveralContents == {RichLesson, TechnicalOnly, Words15, Size99}

\* the requests that can be served at the same time
MaxThreads == 2

Threads == 1..MaxThreads

\* a thread that serves no request
IdleThread == [pc |-> "idle"]

\* no world has been uploaded and no dictionary request is being served
FreshStore ==
    /\ metadata = <<>>
    /\ unpacked_metadata = <<>>
    /\ clock = 0
    /\ threads = [t \in Threads |-> IdleThread]

\* most world records and most unpacked records
MaxWorlds == 2

MaxUnpacked == 2

\* the last second of the clock
MaxClock == 1

\* the longest name of a world that is unpacked and of one that is stored: an
\* uploaded world is unpacked and repacked, a version of it is not
LongestUnpacked == Len("castle.mcworld")

LongestStored == Len("castle_v1.mcworld")

Username == "teacher"

GoodArchive == ZipMagic \o ZipEntry("texts/en_US.lang", "npc.a=Hi\n")

CorruptArchive == "not a zip"

\* the files a user uploads: none, one of another type, a world and a
\* damaged world named as a version
Uploads ==
    {[filename |-> "", content |-> ""],
     [filename |-> "notes.txt", content |-> "notes"],
     [filename |-> "castle.mcworld", content |-> GoodArchive],
     [filename |-> "castle_v1.mcworld", content |-> CorruptArchive]}

\* the ids of the urls
WorldIds == 1..MaxWorlds

UnpackedIds == 1..MaxUnpacked

\* the calls of load_custom_dictionary within one another that the
\* interpreter allows before it raises RecursionError
RecursionLimit == 3

\* the words asked to be added while other requests are served
ThreadWords == {"x", " Biome ", "Golem"}

\* what the operating system does to the opening of the dictionary file for
\* writing
OpenOutcomes == {"ok", "OSError"}

\* a world folder that holds (or not) some .lang files and a notes file
InitPipeline ==
    /\ \E S \in SUBSET LangPaths : \E placed \in [S -> Contents] :
         \E notes \in SUBSET {NotesPath} : \E present \in BOOLEAN :
           /\ Cardinality(S) <= MaxLangFiles
           /\ Cardinality(S) > 1 => \A path \in S : placed[path] \in SeveralContents
           /\ S # {} => notes = {} /\ present
           /\ ~ present => notes = {}
           /\ files = [path \in S \cup notes |->
                          IF path \in S THEN placed[path] ELSE NotesText]
           /\ directories = IF present
                            THEN {WorldRoot(WorldFolder), WorldRoot(WorldFolder) \o "/texts"}
                            ELSE {}
    /\ dict_file = None
    /\ last = Idle
    /\ added = {}
    /\ saves = 0
    /\ FreshStore

\* three unpacked worlds, the first with a lesson in its primary locale
InitWorlds ==
    /\ files = [path \in {WorldRoot(f) \o "/texts/en_US.lang" :
                              f \in {WorldFolder, SiblingFolder, OtherFolder}}
                         \cup {NotesPath} |->
                   IF path = NotesPath THEN NotesText
                   ELSE IF path = WorldRoot(WorldFolder) \o "/texts/en_US.lang" THEN RichLesson
                   ELSE Words15]
    /\ directories = UNION {{WorldRoot(f), WorldRoot(f) \o "/texts"} :
                              f \in {WorldFolder, SiblingFolder, OtherFolder}}
    /\ dict_file = None
    /\ last = Idle
    /\ added = {}
    /\ saves = 0
    /\ FreshStore

\* a world folder that holds some of the locator's files, of any of the sizes
InitLocator ==
    /\ \E S \in SUBSET LocatorPaths : \E sizes \in [S -> LocatorSizes] :
         files = [path \in S |-> Filler(sizes[path])]
    /\ directories = {WorldRoot(WorldFolder), WorldRoot(WorldFolder) \o "/texts"}
    /\ dict_file = None
    /\ last = Idle
    /\ added = {}
    /\ saves = 0
    /\ FreshStore

\* a world folder that holds one .lang file of a few lines
InitExtractor ==
    /\ \E content \in ExtractorContents : files = [path \in {ExtractorPath} |-> content]
    /\ directories = {WorldRoot(WorldFolder), WorldRoot(WorldFolder) \o "/texts"}
    /\ dict_file = None
    /\ last = Idle
    /\ added = {}
    /\ saves = 0
    /\ FreshStore

\* a server that holds no unpacked world
InitEmpty ==
    /\ files = <<>>
    /\ directories = {}
    /\ dict_file = None
    /\ last = Idle
    /\ added = {}
    /\ saves = 0
    /\ FreshStore

Init == InitWorlds

\* the readability analysis of the world
PerformAnalysis ==
    /\ last = Idle
    /\ \E walk \in Orderings(FilesUnder(files, os_path_join(UNPACKED_FOLDER, WorldFolder))) :
         \E env \in AnalysisEnvironments :
           last' = perform_language_analysis(files, directories, WorldFolder, walk,
                                             env.stat, env.readable, env.textstat)
    /\ UNCHANGED <<files, directories, dict_file, added, saves, storeVars, threads>>

\* the orders in which a spell check can visit its misspelled words
IterationOrders(walk, env) ==
    LET readable == env.readable
        lang_files == find_language_files(files, directories, WorldFolder, walk)
        english_files == SelectSeq(lang_files, IsEnglish)
        largest_file == IF english_files # <<>> THEN MaxBySize(english_files)
                        ELSE MaxBySize(lang_files)
    IN  IF lang_files = <<>> \/ env.stat # "ok" \/ env.spell.init # "ok"
           \/ env.spell.unknown # "ok"
        THEN {<<>>}
        ELSE Orderings(MisspelledWords(
                 extract_text_from_lang_file(files, largest_file.full_path, readable),
                 dict_file))

\* the spell check of the world
PerformSpellCheck ==
    /\ last = Idle
    /\ \E walk \in Orderings(FilesUnder(files, os_path_join(UNPACKED_FOLDER, WorldFolder))) :
         \E env \in SpellEnvironments : \E iteration \in IterationOrders(walk, env) :
             LET done == perform_spell_check(files, directories, WorldFolder, walk, env.stat,
                                             env.readable, dict_file, env.spell, iteration)
             IN  /\ last' = done.result
                 /\ dict_file' = done.dict
    /\ UNCHANGED <<files, directories, added, saves, storeVars, threads>>

\* the request to add a word to the custom dictionary
AddWord ==
    /\ last = Idle
    /\ Len(DictAfterLoad(dict_file)[1]) < Len(create_default_custom_dictionary[1]) + MaxAdded
    /\ \E word \in WordInputs :
         LET done == add_word_to_custom_dictionary(dict_file, word)
         IN  /\ last' = [op |-> "add_word_to_custom_dictionary", success |-> done.success,
                         message |-> done.message, word |-> done.word]
             /\ dict_file' = done.dict
             /\ added' = IF done.success THEN added \cup {done.word} ELSE added
    /\ UNCHANGED <<files, directories, saves, storeVars, threads>>

\* the request for the words of the custom dictionary and their number
GetCustomDictionary ==
    /\ last = Idle
    /\ last' = [op |-> "get_custom_dictionary_words",
                words |-> load_custom_dictionary(dict_file),
                total_words |-> custom_dictionary_size(dict_file)]
    /\ dict_file' = DictAfterLoad(dict_file)
    /\ UNCHANGED <<files, directories, added, saves, storeVars, threads>>

\* the editor's spell check of a text
SpellCheckContent ==
    /\ last = Idle
    /\ \E content \in EditorContents : last' = api_spell_check_content(files, content)
    /\ UNCHANGED <<files, directories, dict_file, added, saves, storeVars, threads>>

GetFileContent ==
    /\ last = Idle
    /\ \E file_path \in FilePaths :
         last' = api_get_file_content(files, directories, WorldFolder, file_path).response
    /\ UNCHANGED <<files, directories, dict_file, added, saves, storeVars, threads>>

SaveFileContent ==
    /\ last = Idle
    /\ saves < MaxSaves
    /\ \E file_path \in FilePaths : \E content \in SaveContents :
         LET done == api_save_file_content(files, directories, WorldFolder, file_path, content)
         IN  /\ last' = done.response
             /\ files' = done.files
    /\ saves' = saves + 1
    /\ UNCHANGED <<directories, dict_file, added, storeVars, threads>>

ViewLanguageFile ==
    /\ last = Idle
    /\ \E file_path \in FilePaths :
         last' = view_language_file(files, directories, WorldFolder, file_path).response
    /\ UNCHANGED <<files, directories, dict_file, added, saves, storeVars, threads>>

DownloadLanguageFile ==
    /\ last = Idle
    /\ \E file_path \in FilePaths :
         last' = download_language_file(files, directories, WorldFolder, file_path).response
    /\ UNCHANGED <<files, directories, dict_file, added, saves, storeVars, threads>>

\* the locator on the world folder, for every order of the directory walk
Locate ==
    /\ last = Idle
    /\ \E walk \in Orderings(FilesUnder(files, os_path_join(UNPACKED_FOLDER, WorldFolder))) :
         last' = [op |-> "find_language_files",
                  lang_files |-> find_language_files(files, directories, WorldFolder, walk)]
    /\ UNCHANGED <<files, directories, dict_file, added, saves, storeVars, threads>>

\* the classifier on a key and a value
Classify ==
    /\ last = Idle
    /\ \E key \in ClassifierKeys : \E value \in ClassifierValues :
         last' = [op |-> "is_educational_content", key |-> key, value |-> value,
                  result |-> is_educational_content(key, value)]
    /\ UNCHANGED <<files, directories, dict_file, added, saves, storeVars, threads>>

\* the extractor on a file that is there or not, and can be read or not
Extract ==
    /\ last = Idle
    /\ \E path \in {ExtractorPath, MissingPath} : \E readable \in BOOLEAN :
         last' = [op |-> "extract_text_from_lang_file", path |-> path, readable |-> readable,
                  text |-> extract_text_from_lang_file(files, path, readable)]
    /\ UNCHANGED <<files, directories, dict_file, added, saves, storeVars, threads>>

\* the analyzer on the lesson text, for the scores textstat gives
Analyze ==
    /\ last = Idle
    /\ \E grade \in GradeInputs : \E ease \in EaseInputs :
         last' = [op |-> "analyze_language_complexity", grade |-> grade, ease |-> ease,
                  analysis |-> analyze_language_complexity(LessonText,
                                                           TextstatScores(grade, ease))]
    /\ UNCHANGED <<files, directories, dict_file, added, saves, storeVars, threads>>

\* the cleaner on a value of a language file
Clean ==
    /\ last = Idle
    /\ \E text \in CleanerValues :
         last' = [op |-> "clean_educational_text", text |-> text,
                  cleaned |-> clean_educational_text(text)]
    /\ UNCHANGED <<files, directories, dict_file, added, saves, storeVars, threads>>

\* the statistics and the quality assessment of a spell check report, for a
\* number of unique words and the number of them the checker does not know
Assess ==
    /\ last = Idle
    /\ \E total_words \in QualityTotals : \E misspelled_count \in 0..total_words :
         last' = [op |-> "quality_assessment",
                  statistics |->
                      [ total_unique_words |-> total_words,
                        misspelled_words |-> misspelled_count,
                        accuracy_percentage |-> accuracy_percentage(total_words, misspelled_count) ],
                  quality_assessment |->
                      [ level |-> quality_level(accuracy_percentage(total_words, misspelled_count)),
                        description |->
                            get_spell_quality_description(
                                accuracy_percentage(total_words, misspelled_count),
                                misspelled_count) ]]
    /\ UNCHANGED <<files, directories, dict_file, added, saves, storeVars, threads>>

\* the outcome of a request on the store becomes the state
StoreBecomes(done) ==
    /\ last' = done.response
    /\ files' = done.files
    /\ directories' = done.directories
    /\ metadata' = done.metadata
    /\ unpacked_metadata' = done.unpacked_metadata

UploadWorld ==
    /\ last = Idle
    /\ Len(metadata) < MaxWorlds
    /\ \E file \in Uploads :
         StoreBecomes(upload_world(files, directories, metadata, unpacked_metadata,
                                   file.filename, file.content, Username, clock))
    /\ UNCHANGED <<dict_file, added, saves, clock, threads>>

UnpackWorld ==
    /\ last = Idle
    /\ \E world_id \in WorldIds :
         LET done == unpack_world(files, directories, metadata, unpacked_metadata,
                                  world_id, Username, clock)
         IN  /\ Len(done.unpacked_metadata) <= MaxUnpacked
             /\ \A i \in 1..Len(done.unpacked_metadata) :
                    Len(done.unpacked_metadata[i].original_filename) <= LongestUnpacked
             /\ StoreBecomes(done)
    /\ UNCHANGED <<dict_file, added, saves, clock, threads>>

RepackWorld ==
    /\ last = Idle
    /\ Len(metadata) < MaxWorlds
    /\ \E unpacked_id \in UnpackedIds : \E fault \in RepackFaults :
         LET found == get_unpacked_world_by_id(unpacked_metadata, unpacked_id)
             root  == IF found = None THEN ""
                      ELSE UnpackedPath(found[1].folder_name)
         IN  \E walk \in Orderings(FilesInside(files, root)) :
                 LET done == repack_world(files, directories, metadata, unpacked_metadata,
                                          unpacked_id, Username, clock, walk, fault)
                 IN  /\ \A i \in 1..Len(done.metadata) :
                            Len(done.metadata[i].original_filename) <= LongestStored
                     /\ StoreBecomes(done)
    /\ UNCHANGED <<dict_file, added, saves, clock, threads>>

DeleteWorld ==
    /\ last = Idle
    /\ \E world_id \in WorldIds :
         StoreBecomes(delete_world(files, directories, metadata, unpacked_metadata, world_id))
    /\ UNCHANGED <<dict_file, added, saves, clock, threads>>

Dashboard ==
    /\ last = Idle
    /\ StoreBecomes(dashboard(files, directories, metadata, unpacked_metadata))
    /\ UNCHANGED <<dict_file, added, saves, clock, threads>>

\* a second passes
Tick ==
    /\ last = Idle
    /\ clock < MaxClock
    /\ clock' = clock + 1
    /\ UNCHANGED <<files, directories, dict_file, last, added, saves, metadata,
                   unpacked_metadata, threads>>

\* the thread t with its fields changed
Moves(t, thread) ==
    /\ threads' = [threads EXCEPT ![t] = thread]
    /\ UNCHANGED <<files, directories, last, saves, storeVars>>

\* a request for the words of the dictionary starts: load_custom_dictionary
StartLoad ==
    \E t \in Threads :
        /\ threads[t].pc = "idle"
        /\ Moves(t, [pc |-> "exists", op |-> "get_custom_dictionary_words", word |-> "",
                     attempts |-> 0])
        /\ UNCHANGED <<dict_file, added>>

\* a request to add a word starts: the word is checked, then the dictionary
\* is loaded
StartAdd ==
    \E t \in Threads : \E raw_word \in ThreadWords :
        LET word == strip(lower(raw_word))
        IN  /\ threads[t].pc = "idle"
            /\ IF word = "" \/ Len(word) < 2
               THEN Moves(t, [pc |-> "return", op |-> "add_word_to_custom_dictionary",
                              word |-> word, attempts |-> 0, success |-> FALSE,
                              message |-> "Word must be at least 2 characters long"])
               ELSE Moves(t, [pc |-> "exists", op |-> "add_word_to_custom_dictionary",
                              word |-> word, attempts |-> 0])
            /\ UNCHANGED <<dict_file, added>>

\* load_custom_dictionary looks for the file: it reads the words of a file
\* that exists, else it goes on to create the default one, unless the calls
\* within one another have reached the limit, and then the RecursionError
\* is caught and the list is empty
Exists ==
    \E t \in Threads :
        /\ threads[t].pc = "exists"
        /\ IF dict_file # None
           THEN Moves(t, [threads[t] EXCEPT !.pc = "loaded"]
                             @@ [existing_words |-> WordsOfLines(dict_file[1])])
           ELSE IF threads[t].attempts >= RecursionLimit
           THEN Moves(t, [threads[t] EXCEPT !.pc = "loaded"] @@ [existing_words |-> <<>>])
           ELSE Moves(t, [threads[t] EXCEPT !.pc = "create"])
        /\ UNCHANGED <<dict_file, added>>

\* create_default_custom_dictionary opens the file for writing, which empties
\* it, and writes the default words; an error is printed and swallowed.
\* Then load_custom_dictionary calls itself
Create ==
    \E t \in Threads : \E outcome \in OpenOutcomes :
        /\ threads[t].pc = "create"
        /\ dict_file' = IF outcome = "ok" THEN create_default_custom_dictionary ELSE dict_file
        /\ Moves(t, [threads[t] EXCEPT !.pc = "exists", !.attempts = @ + 1])
        /\ UNCHANGED added

\* the list is loaded: it is the answer of a request for the words; a word
\* that is in it is refused, another is to be appended
Loaded ==
    \E t \in Threads :
        /\ threads[t].pc = "loaded"
        /\ IF threads[t].op = "get_custom_dictionary_words"
           THEN Moves(t, [threads[t] EXCEPT !.pc = "return"]
                             @@ [success |-> TRUE, message |-> ""])
           ELSE IF InList(threads[t].word, threads[t].existing_words)
           THEN Moves(t, [threads[t] EXCEPT !.pc = "return"]
                             @@ [success |-> FALSE,
                                 message |-> "Word already exists in custom dictionary"])
           ELSE Moves(t, [threads[t] EXCEPT !.pc = "append"])
        /\ UNCHANGED <<dict_file, added>>

\* the word is appended to the file, which is created when it is not there
AppendWord ==
    \E t \in Threads : \E outcome \in OpenOutcomes :
        /\ threads[t].pc = "append"
        /\ dict_file # None =>
               Len(dict_file[1]) < Len(create_default_custom_dictionary[1]) + MaxAdded
        /\ IF outcome = "ok"
           THEN /\ dict_file' = AppendedFile(dict_file, threads[t].word)
                /\ Moves(t, [threads[t] EXCEPT !.pc = "return"]
                                @@ [success |-> TRUE,
                                    message |-> "Successfully added '" \o threads[t].word
                                                    \o "' to custom dictionary"])
           ELSE /\ dict_file' = dict_file
                /\ Moves(t, [threads[t] EXCEPT !.pc = "return"]
                                @@ [success |-> FALSE,
                                    message |-> "Error adding word to dictionary: OSError"])
        /\ UNCHANGED added

\* the request of the thread is answered
Return ==
    \E t \in Threads :
        /\ threads[t].pc = "return"
        /\ added' = IF threads[t].op = "add_word_to_custom_dictionary" /\ threads[t].success
                    THEN added \cup {threads[t].word}
                    ELSE added
        /\ Moves(t, IdleThread)
        /\ UNCHANGED dict_file

\* the response is handed to the caller
Respond ==
    /\ last # Idle
    /\ last' = Idle
    /\ UNCHANGED <<files, directories, dict_file, added, saves, storeVars, threads>>

NextPipeline == PerformAnalysis \/ PerformSpellCheck \/ Respond

NextDictionary ==
    AddWord \/ GetCustomDictionary \/ PerformSpellCheck \/ SpellCheckContent \/ Respond

NextFiles ==
    GetFileContent \/ SaveFileContent \/ ViewLanguageFile \/ DownloadLanguageFile \/ Respond

NextLocator == Locate \/ Respond

NextClassifier == Classify \/ Respond

NextExtractor == Extract \/ Respond

NextAnalyzer == Analyze \/ Respond

NextQuality == Assess \/ Respond

NextCleaner == Clean \/ Respond

NextThreads == StartLoad \/ StartAdd \/ Exists \/ Create \/ Loaded \/ AppendWord \/ Return

NextStore ==
    UploadWorld \/ UnpackWorld \/ RepackWorld \/ DeleteWorld \/ Dashboard \/ Tick \/ Respond

Next ==
    \/ Locate \/ Classify \/ Extract \/ Analyze \/ Assess \/ Clean
    \/ PerformAnalysis \/ PerformSpellCheck
    \/ AddWord \/ GetCustomDictionary \/ SpellCheckContent
    \/ GetFileContent \/ SaveFileContent \/ ViewLanguageFile \/ DownloadLanguageFile
    \/ UploadWorld \/ UnpackWorld \/ RepackWorld \/ DeleteWorld \/ Dashboard \/ Tick
    \/ StartLoad \/ StartAdd \/ Exists \/ Create \/ Loaded \/ AppendWord \/ Return
    \/ Respond

\* the pipelines on every world folder
SpecPipeline == InitPipeline /\ [][NextPipeline]_vars

\* the custom dictionary and the spell checks
SpecDictionary == InitWorlds /\ [][NextDictionary]_vars

\* the editor's file requests
SpecFiles == InitWorlds /\ [][NextFiles]_vars

\* the locator on its own
SpecLocator == InitLocator /\ [][NextLocator]_vars

\* the classifier on its own
SpecClassifier == InitEmpty /\ [][NextClassifier]_vars

\* the extractor on its own
SpecExtractor == InitExtractor /\ [][NextExtractor]_vars

\* the analyzer on its own
SpecAnalyzer == InitEmpty /\ [][NextAnalyzer]_vars

\* the statistics of a spell check on their own
SpecQuality == InitEmpty /\ [][NextQuality]_vars

\* the cleaner on its own
SpecCleaner == InitEmpty /\ [][NextCleaner]_vars

\* the world store
SpecStore == InitEmpty /\ [][NextStore]_vars

\* dictionary requests served at the same time
SpecThreads == InitEmpty /\ [][NextThreads]_vars

Spec == Init /\ [][Next]_vars

(***************************************************************************)
(* Properties of the report pipelines                                      *)
(***************************************************************************)
PipelineOps == {"perform_language_analysis", "perform_spell_check"}

\* the request served last was one of the two pipelines
IsPipelineResult == last.op \in PipelineOps

\* the .lang files below the world folder, and the primary-locale ones
LangFilesOfWorld ==
    {path \in FilesUnder(files, os_path_join(UNPACKED_FOLDER, WorldFolder)) :
        endswith(lower(basename(path)), ".lang")}

PrimaryFilesOfWorld == {path \in LangFilesOfWorld : is_english_lang_file(basename(path))}

\* the locator has nothing to find: the folder is absent or holds no .lang file
NothingToLocate == WorldRoot(WorldFolder) \notin directories \/ LangFilesOfWorld = {}

IsNoFilesReason(reason) == startswith(reason, "No language files (.lang) were found")

IsTooSmallReason(reason) ==
    startswith(reason, "The selected language file") /\ contains(reason, "is too small")

IsNoContentReason(reason) == startswith(reason, "Could not extract educational content")

IsLengthReason(reason) ==
    startswith(reason, "Insufficient educational content") /\ contains(reason, " characters of ")

IsWordCountReason(reason) ==
    startswith(reason, "Insufficient educational content") /\ contains(reason, " words of ")

IsAnalysisReason(reason) == startswith(reason, "Unable to analyze text complexity")

\* one of the step-specific reasons of the pipeline
IsStepReason(reason) ==
    \/ IsNoFilesReason(reason) \/ IsTooSmallReason(reason) \/ IsNoContentReason(reason)
    \/ IsLengthReason(reason) \/ IsWordCountReason(reason) \/ IsAnalysisReason(reason)

\* the note of a report
NoteOf(result) ==
    IF result.op = "perform_language_analysis"
    THEN result.report[1].analyzed_file.analysis_note
    ELSE result.report[1].analyzed_file.spell_check_note

IsWarningNote(note) == startswith(note, WarningSign \o " No English language files found")

\* the size on disk of the file a result has selected
SelectedSize == ByteLen(files[last.selected[1].full_path])

\* the text the extractor gives for the file a result has selected
SelectedText == extract_text_from_lang_file(files, last.selected[1].full_path, TRUE)

\* C1: perform_language_analysis and perform_spell_check return a pair of
\* which exactly one component is not None, either (report, None) or
\* (None, reason) with a non-empty reason, whatever the folder holds and
\* whatever the operating system and the libraries raise.
C1_ExactlyOneComponent ==
    IsPipelineResult =>
        /\ (last.report = None) # (last.reason = None)
        /\ last.reason # None => last.reason[1] # ""

\* a call in which a library raised, answered by a pair
C1_Witness ==
    /\ last.op = "perform_spell_check"
    /\ last.report = None
    /\ last.reason = Some("Error finding misspelled words: " \o SpellErrorText)

\* C2: every failure of the two pipelines carries one of the step-specific
\* reasons (no localization files, file too small, no educational content,
\* insufficient length, insufficient word count, analysis could not be
\* performed), never a generic message or the text of an exception.
C2_StepSpecificReason ==
    IsPipelineResult /\ last.reason # None => IsStepReason(last.reason[1])

\* C3: when the folder is absent or holds no file whose name ends in .lang,
\* the locator returns the empty list and both pipelines return (None, reason)
\* with the no-language-files reason, having entered no later stage.
C3_NoFilesReason ==
    NothingToLocate =>
        /\ \A walk \in Orderings(FilesUnder(files, os_path_join(UNPACKED_FOLDER, WorldFolder))) :
              find_language_files(files, directories, WorldFolder, walk) = <<>>
        /\ IsPipelineResult =>
              /\ last.report = None
              /\ last.reason # None
              /\ IsNoFilesReason(last.reason[1])
              /\ last.stages = <<"locate">>

\* a pipeline has answered for a folder that exists and holds only a file
\* that is no .lang file
C3_Witness ==
    /\ IsPipelineResult
    /\ WorldRoot(WorldFolder) \in directories
    /\ NotesPath \in DOMAIN files
    /\ LangFilesOfWorld = {}

\* C4: when the selected file is smaller than 100 bytes both pipelines fail
\* with the too-small reason before the extractor is entered; a file of 100
\* bytes or more passes the size check.
C4_TooSmallBeforeExtraction ==
    IsPipelineResult /\ last.selected # None =>
        IF SelectedSize < 100
        THEN /\ last.report = None
             /\ IsTooSmallReason(last.reason[1])
             /\ last.stages = <<"locate", "select", "size">>
        ELSE /\ InList("extract", last.stages)
             /\ last.reason # None => ~ IsTooSmallReason(last.reason[1])

\* a pipeline has rejected a file of 99 bytes
C4_Witness ==
    /\ IsPipelineResult
    /\ last.selected # None
    /\ SelectedSize = 99
    /\ IsTooSmallReason(last.reason[1])

C6_ReportThresholds ==
    IsPipelineResult /\ last.report # None =>
        /\ Len(split(SelectedText)) >= 15
        /\ Len(strip(SelectedText)) >= 50

\* a report on a text of exactly 15 words
C6_Witness ==
    /\ IsPipelineResult
    /\ last.report # None
    /\ Len(split(SelectedText)) = 15

(***************************************************************************)
(* Properties of the editor's file operations                              *)
(***************************************************************************)
FileOps ==
    {"api_get_file_content", "api_save_file_content", "view_language_file",
     "download_language_file"}

\* C7: get-file-content, save-file-content, view-language-file and
\* download-language-file read, back up or write a file only if it resolves
\* inside the root folder of the unpacked world, whatever path is requested.
C7_PathsInsideWorld ==
    last.op \in FileOps =>
        \A path \in last.reads \cup last.writes : Inside(path, WorldRoot(WorldFolder))

(***************************************************************************)
(* Properties of the custom dictionary                                     *)
(***************************************************************************)
\* C8: add_word_to_custom_dictionary answers (False, message) and leaves the
\* persisted word list as it is when the lower-cased, trimmed word is shorter
\* than 2 characters or already in the list; otherwise it appends exactly
\* that word and answers (True, message).
C8_AddWord ==
    [][ last'.op = "add_word_to_custom_dictionary" /\ last = Idle =>
            IF Len(last'.word) < 2 \/ InList(last'.word, load_custom_dictionary(dict_file))
            THEN /\ ~ last'.success
                 /\ load_custom_dictionary(dict_file') = load_custom_dictionary(dict_file)
            ELSE /\ last'.success
                 /\ load_custom_dictionary(dict_file')
                        = load_custom_dictionary(dict_file) \o <<last'.word>> ]_vars

\* C9: once created, the persisted word list holds no word more than once,
\* so that its reported size is the number of distinct words.
C9_NoDuplicates ==
    dict_file # None =>
        custom_dictionary_size(dict_file)
            = Cardinality({load_custom_dictionary(dict_file)[i] :
                              i \in 1..Len(load_custom_dictionary(dict_file))})

\* C10: a word that add_word_to_custom_dictionary has answered it added is
\* reported as misspelled by no later spell check, of the world or of the
\* editor.
C10_AddedWordsAccepted ==
    /\ last.op = "perform_spell_check" /\ last.report # None =>
          \A i \in 1..Len(last.report[1].errors.all_errors) :
              last.report[1].errors.all_errors[i].word \notin added
    /\ last.op = "api_spell_check_content" => last.misspelled \cap added = {}

(***************************************************************************)
(* Properties of the locator                                               *)
(***************************************************************************)
\* the names of the files of a locator result, in its order
NamesOf(lang_files) == [i \in 1..Len(lang_files) |-> lang_files[i].name]

\* the world holds xx_xx.lang of 500 bytes, en_us.lang of 200 and en_gb.lang
\* of 800
IsRankingExample ==
    /\ DOMAIN files = LocatorPaths
    /\ \A path \in DOMAIN files :
          ByteLen(files[path]) = (IF basename(path) = "xx_xx.lang" THEN 500
                                  ELSE IF basename(path) = "en_us.lang" THEN 200 ELSE 800)

\* C11: the locator's result lists every primary-locale file before every
\* other file, sizes do not increase within either group, and the result is
\* a permutation of the .lang files of the folder; xx_xx.lang (500 bytes),
\* en_us.lang (200) and en_gb.lang (800) come out as en_gb.lang, en_us.lang,
\* xx_xx.lang.
C11_LocatorOrder ==
    last.op = "find_language_files" =>
        /\ \A i \in 1..Len(last.lang_files) : \A j \in (i + 1)..Len(last.lang_files) :
              /\ is_english_lang_file(last.lang_files[j].name)
                    => is_english_lang_file(last.lang_files[i].name)
              /\ is_english_lang_file(last.lang_files[i].name)
                    = is_english_lang_file(last.lang_files[j].name)
                    => last.lang_files[i].size_bytes >= last.lang_files[j].size_bytes
              /\ last.lang_files[i].full_path # last.lang_files[j].full_path
        /\ {last.lang_files[i].full_path : i \in 1..Len(last.lang_files)} = LangFilesOfWorld
        /\ \A i \in 1..Len(last.lang_files) :
              last.lang_files[i].size_bytes = ByteLen(files[last.lang_files[i].full_path])
        /\ IsRankingExample
              => NamesOf(last.lang_files) = <<"en_gb.lang", "en_us.lang", "xx_xx.lang">>

\* the locator has ranked the three files of the example
C11_Witness ==
    /\ last.op = "find_language_files"
    /\ IsRankingExample
    /\ NamesOf(last.lang_files) = <<"en_gb.lang", "en_us.lang", "xx_xx.lang">>

(***************************************************************************)
(* Properties of the classifier                                            *)
(***************************************************************************)
IsClassified == last.op = "is_educational_content"

\* the lower-cased key contains one of the educational key patterns
KeyHasPattern(key) == \E pattern \in educational_patterns : contains(lower(key), pattern)

\* C12: is_educational_content(key, value) is true for every value, be it
\* short, numeric or technical, whenever the lower-cased key contains one of
\* the educational key patterns; ("npc.greeting.01", "Hello, welcome to the
\* sustainability lab!") is classified educational.
C12_KeyPatternSuffices ==
    IsClassified =>
        /\ KeyHasPattern(last.key) => last.result
        /\ last.key = "npc.greeting.01"
              /\ last.value = "Hello, welcome to the sustainability lab!" => last.result

\* a technical value classified educational for its key
C12_Witness ==
    /\ IsClassified
    /\ last.key = "NPC.Greeting.02"
    /\ last.value = "minecraft:diamond_pickaxe"
    /\ last.result

Punctuation == CharsOf(".,;:!?'-()/%+*#&@_=<>") \cup {"\"", "\\"}

HasTechnicalMarker(value) == \E marker \in technical_markers : contains(lower(value), marker)

\* the value holds nothing but digits, punctuation and spaces
OnlyDigitsAndPunctuation(value) ==
    /\ strip(value) # ""
    /\ \A i \in 1..Len(value) : Char(value, i) \in Digits \cup Punctuation \cup {" "}

\* one of the three rejection rules applies to the value
IsRejectedValue(value) ==
    \/ Len(strip(value)) < 3
    \/ HasTechnicalMarker(value)
    \/ OnlyDigitsAndPunctuation(value)

\* C13: when the key matches no educational key pattern, the classifier
\* rejects every value shorter than 3 characters after trimming, every value
\* that contains a technical marker and every value that consists only of
\* digits and punctuation, with or without spaces;
\* ("item.diamond_pickaxe.name", "minecraft:diamond_pickaxe") is rejected.
C13_RejectionRules ==
    IsClassified /\ ~ KeyHasPattern(last.key) /\ IsRejectedValue(last.value) => ~ last.result

\* the single word of a value, without its case and its punctuation
WordItself(value) == lower(removechars(strip(value), Punctuation))

FunctionWords ==
    {"the", "a", "an", "and", "or", "but", "with", "to", "for", "of", "in", "on", "at"}

\* the value holds a common function word or a punctuation indicator, or has
\* at least 4 words
IsSentenceLike(value) ==
    \/ \E i \in 1..Len(split(value)) : lower(split(value)[i]) \in FunctionWords
    \/ \E i \in 1..Len(value) : Char(value, i) \in {".", "!", "?", ","}
    \/ Len(split(value)) >= 4

\* C14: when the key matches no pattern and no rejection rule applies, a
\* single-word value is accepted only if the word itself is one of the
\* educational terms, and a value of several words is accepted if it is
\* sentence-like.
C14_WordAndSentenceRules ==
    IsClassified /\ ~ KeyHasPattern(last.key) /\ ~ IsRejectedValue(last.value) =>
        /\ Len(split(last.value)) = 1 /\ last.result
              => WordItself(last.value) \in educational_words
        /\ Len(split(last.value)) > 1 /\ IsSentenceLike(last.value) => last.result

(***************************************************************************)
(* Properties of the extractor                                             *)
(***************************************************************************)
\* the extractor has read the file
HasExtracted ==
    /\ last.op = "extract_text_from_lang_file"
    /\ last.readable
    /\ last.path \in DOMAIN files

\* the line is blank, a comment, or has no separator
IsSkippedLine(line) ==
    strip(line) = "" \/ startswith(strip(line), "#") \/ ~ contains(line, "=")

IsKeptLine(line) == ~ IsSkippedLine(line)

\* the cleaned value of a line "key=value"
CleanedValueOf(line) == clean_educational_text(ValueOf(strip(line)))

\* the line has a key and a value, the classifier accepts them, and the
\* cleaned value is longer than 10 characters with a letter and 3 words
IsContributingLine(line) ==
    /\ IsKeptLine(line)
    /\ ValueOf(strip(line)) # ""
    /\ is_educational_content(KeyOf(strip(line)), ValueOf(strip(line)))
    /\ Len(CleanedValueOf(line)) > 10
    /\ \E i \in 1..Len(CleanedValueOf(line)) : Char(CleanedValueOf(line), i) \in Letters
    /\ Len(split(CleanedValueOf(line))) >= 3

\* the cleaned values of the contributing lines of a content, in file order
ContributionsOf(content) ==
    [i \in 1..Len(SelectSeq(splitsep(content, "\n"), IsContributingLine)) |->
        CleanedValueOf(SelectSeq(splitsep(content, "\n"), IsContributingLine)[i])]

\* C15: the extractor's output is the single-space join, in file order, of
\* the cleaned values of exactly the lines that have a key and a non-empty
\* value, pass the classifier and whose cleaned value is longer than 10
\* characters with a letter and at least 3 words; so the output is empty or
\* longer than 10 characters with at least 3 words, and a blank line, a
\* comment or a line without '=' contributes nothing and stops nothing.
C15_ExtractorOutput ==
    HasExtracted =>
        /\ last.text = join(" ", ContributionsOf(files[last.path]))
        /\ last.text = "" \/ (Len(last.text) > 10 /\ Len(split(last.text)) >= 3)
        /\ last.text = extract_text_from_content(
                           join("\n", SelectSeq(splitsep(files[last.path], "\n"), IsKeptLine)))

\* two values extracted in file order from a file whose first line is cleaned
C15_Witness ==
    /\ HasExtracted
    /\ files[last.path]
          = "sign.b=§aLearn about %d biomes today\nnpc.a=Welcome to the energy lesson."
    /\ last.text = "Learn about [value] biomes today Welcome to the energy lesson."

\* what the two pipelines return for the world when the selected file cannot
\* be read, for every order of the directory walk
ResultsWhenUnreadable ==
    UNION {{ perform_language_analysis(files, directories, WorldFolder, walk, "ok", FALSE,
                                       TextstatRaises),
             perform_spell_check(files, directories, WorldFolder, walk, "ok", FALSE,
                                 dict_file, NoSpellFault, <<>>).result } :
           walk \in Orderings(FilesUnder(files, os_path_join(UNPACKED_FOLDER, WorldFolder)))}

\* C16: the extractor returns the empty string for a file that is missing or
\* cannot be read or decoded, and a pipeline whose selected file cannot be
\* read returns the no-educational-content reason, not a message made from
\* an exception.
C16_UnreadableIsEmpty ==
    /\ \A path \in DOMAIN files : extract_text_from_lang_file(files, path, FALSE) = ""
    /\ \A path \in LangPaths \ DOMAIN files :
          \A readable \in BOOLEAN : extract_text_from_lang_file(files, path, readable) = ""
    /\ \A result \in ResultsWhenUnreadable :
          result.selected # None /\ result.selected[1].size_bytes >= 100 =>
              /\ result.report = None
              /\ result.reason # None
              /\ IsNoContentReason(result.reason[1])
              /\ result.stages = <<"locate", "select", "size", "extract">>

\* a pipeline has answered that no educational content could be extracted
\* from a file that holds a lesson
C16_Witness ==
    /\ IsPipelineResult
    /\ last.selected # None
    /\ files[last.selected[1].full_path] = RichLesson
    /\ last.reason # None
    /\ IsNoContentReason(last.reason[1])

(***************************************************************************)
(* Properties of the readability analyzer                                  *)
(***************************************************************************)
IsAnalyzed == last.op = "analyze_language_complexity" /\ last.analysis # None

\* round(g + 5) for a grade in hundredths, a tie going up
RoundedAge(grade) == (grade + 500 + 50) \div 100

EaseLabels ==
    { "Very Easy (5th grade)", "Easy (6th grade)", "Fairly Easy (7th grade)",
      "Standard (8th-9th grade)", "Fairly Difficult (10th-12th grade)",
      "Difficult (College level)", "Very Difficult (Graduate level)" }

\* the label the analyzer gives to the ease scores of the 10-point band of e
\* is the label it gives to no other band between 30 and 90
OneLabelPerBand(lowest) ==
    IsAnalyzed /\ last.ease >= lowest /\ last.ease < 9000 =>
        \A e \in {x \in EaseInputs : x >= lowest /\ x < 9000} :
            (e \div 1000 = last.ease \div 1000)
                <=> (ease_interpretation(e) = last.analysis[1].ease_interpretation)

\* C18 as stated: every ease score has exactly one label, 'Very Easy' from
\* 90, 'Very Difficult' below 30, and one label per 10-point band between.
C18_TenPointBands ==
    /\ IsAnalyzed =>
          /\ last.analysis[1].ease_interpretation \in EaseLabels
          /\ last.ease >= 9000 <=> last.analysis[1].ease_interpretation = "Very Easy (5th grade)"
          /\ last.ease < 3000
                <=> last.analysis[1].ease_interpretation = "Very Difficult (Graduate level)"
    /\ OneLabelPerBand(3000)

\* C18, amended: every ease score has exactly one label, 'Very Easy' from 90,
\* one label per 10-point band from 90 down to 50, 'Difficult' for the whole
\* of 30 <= score < 50, and 'Very Difficult' below 30.
C18_EaseBands ==
    /\ IsAnalyzed =>
          /\ last.analysis[1].ease_interpretation \in EaseLabels
          /\ last.ease >= 9000 <=> last.analysis[1].ease_interpretation = "Very Easy (5th grade)"
          /\ last.ease < 3000
                <=> last.analysis[1].ease_interpretation = "Very Difficult (Graduate level)"
          /\ last.ease >= 3000 /\ last.ease < 5000
                <=> last.analysis[1].ease_interpretation = "Difficult (College level)"
    /\ OneLabelPerBand(5000)

\* a score of 45 labelled as a score of 35 is
C18_Witness ==
    /\ IsAnalyzed
    /\ last.ease = 4500
    /\ last.analysis[1].ease_interpretation = ease_interpretation(3500)

(***************************************************************************)
(* Properties of the spelling analyzer                                     *)
(***************************************************************************)
IsSpellReport == last.op = "perform_spell_check" /\ last.report # None

\* the filtered token list of the selected file: the words of its text that
\* are longer than 2 characters and no numbers, repetitions included
FilteredTokens == SelectSeq(split(Rewrite(SelectedText, KeepWordCharAt)), Checkable)

\* the occurrences of a word in a token list, whatever the case
Occurrences(tokens, word) ==
    Cardinality({k \in 1..Len(tokens) : lower(tokens[k]) = lower(word)})

\* the usage of every error is the number of occurrences of its word
UsageIsOccurrences(errors, tokens) ==
    \A i \in 1..Len(errors) : errors[i].context_usage = Occurrences(tokens, errors[i].word)

\* the usages of a list of errors do not increase
IsByUsage(errors) ==
    \A i \in 1..Len(errors) : \A j \in (i + 1)..Len(errors) :
        errors[i].context_usage >= errors[j].context_usage

\* C19: in every spell check report the contextUsage of an error is the
\* number of occurrences of its word, whatever the case, in the filtered
\* token list with its repetitions; commonErrors holds exactly the errors
\* used more than once and unique_errors exactly those used once; each list
\* is in order of non-increasing usage, and no error has more than 5
\* suggestions.
C19_ErrorLists ==
    IsSpellReport =>
        /\ UsageIsOccurrences(last.report[1].errors.all_errors, FilteredTokens)
        /\ \A i \in 1..Len(last.report[1].errors.all_errors) :
              Len(last.report[1].errors.all_errors[i].suggestions) <= 5
        /\ last.report[1].errors.common_errors
              = SelectSeq(last.report[1].errors.all_errors, LAMBDA e : e.context_usage > 1)
        /\ last.report[1].errors.unique_errors
              = SelectSeq(last.report[1].errors.all_errors, LAMBDA e : e.context_usage = 1)
        /\ IsByUsage(last.report[1].errors.all_errors)
        /\ IsByUsage(last.report[1].errors.common_errors)
        /\ IsByUsage(last.report[1].errors.unique_errors)

\* a report with an error used twice, errors used once, and 5 suggestions
\* kept of the 6 the library gave
C19_Witness ==
    /\ IsSpellReport
    /\ \E i \in 1..Len(last.report[1].errors.common_errors) :
          /\ last.report[1].errors.common_errors[i].context_usage = 2
          /\ Len(last.report[1].errors.common_errors[i].suggestions) = 5
    /\ Len(last.report[1].errors.unique_errors) >= 2

IsAssessed == last.op = "quality_assessment"

\* (total - misspelled) / max(total, 1) as a percentage of one decimal, in
\* tenths, a tie going to the even tenth, and the same with a tie going up
ExactAccuracy(total_words, misspelled_count) ==
    RoundDiv((total_words - misspelled_count) * 1000, IF total_words > 1 THEN total_words ELSE 1)

ExactAccuracyHalfUp(total_words, misspelled_count) ==
    (2 * (total_words - misspelled_count) * 1000 + (IF total_words > 1 THEN total_words ELSE 1))
        \div (2 * (IF total_words > 1 THEN total_words ELSE 1))

\* the words a description opens with in the band of a level
BandOpening(level) ==
    IF level = "Excellent" THEN "Excellent spelling quality with only "
    ELSE IF level = "Good" THEN "Good spelling quality with "
    ELSE IF level = "Fair" THEN "Fair spelling quality with "
    ELSE "Spelling needs improvement with "

\* C20: for every pair of a number of unique words and a number of
\* misspelled ones the accuracy percentage is 100 * (total - misspelled) /
\* max(total, 1) rounded to one decimal (a tie rounded to the even tenth or
\* upwards); the level is Excellent from 95, Good from 90, Fair from 80 and
\* Needs Improvement below; 100 words with 5 misspelled give 95.0 and
\* Excellent; and the description cites the misspelled count and the band
\* of the level.
C20_AccuracyAndLevel ==
    IsAssessed =>
        /\ last.statistics.accuracy_percentage
              \in { ExactAccuracy(last.statistics.total_unique_words,
                                  last.statistics.misspelled_words),
                    ExactAccuracyHalfUp(last.statistics.total_unique_words,
                                        last.statistics.misspelled_words) }
        /\ last.quality_assessment.level
              = (IF last.statistics.accuracy_percentage >= 950 THEN "Excellent"
                 ELSE IF last.statistics.accuracy_percentage >= 900 THEN "Good"
                 ELSE IF last.statistics.accuracy_percentage >= 800 THEN "Fair"
                 ELSE "Needs Improvement")
        /\ (last.statistics.total_unique_words = 100 /\ last.statistics.misspelled_words = 5)
              => (last.statistics.accuracy_percentage = 950
                  /\ last.quality_assessment.level = "Excellent")
        /\ startswith(last.quality_assessment.description,
                      BandOpening(last.quality_assessment.level)
                          \o str(last.statistics.misspelled_words) \o " potential error(s).")

\* the stages a pipeline has entered when it gives a reason
StagesOfReason(reason) ==
    IF IsNoFilesReason(reason) THEN <<"locate">>
    ELSE IF IsTooSmallReason(reason) THEN <<"locate", "select", "size">>
    ELSE IF IsNoContentReason(reason) THEN <<"locate", "select", "size", "extract">>
    ELSE IF IsLengthReason(reason) THEN <<"locate", "select", "size", "extract", "length">>
    ELSE <<"locate", "select", "size", "extract", "length", "words">>

\* the reasons of the checks that stand before the analyzer
IsCheckReason(reason) ==
    \/ IsNoFilesReason(reason) \/ IsTooSmallReason(reason) \/ IsNoContentReason(reason)
    \/ IsLengthReason(reason) \/ IsWordCountReason(reason)

\* a result of a pipeline that gives the reason of a check
IsFailedCheck(result) ==
    result.op \in PipelineOps /\ result.reason # None /\ IsCheckReason(result.reason[1])

\* the size of the file a result has selected, and the text extracted of it
SizeOf(result) == ByteLen(files[result.selected[1].full_path])

TextOf(result) == extract_text_from_lang_file(files, result.selected[1].full_path, TRUE)

\* the check a reason belongs to has failed and the checks before it passed
ReasonOfFirstFailure(result) ==
    /\ IsNoFilesReason(result.reason[1]) => NothingToLocate /\ result.selected = None
    /\ ~ IsNoFilesReason(result.reason[1]) => ~ NothingToLocate /\ result.selected # None
    /\ IsTooSmallReason(result.reason[1]) => SizeOf(result) < 100
    /\ IsNoContentReason(result.reason[1]) => SizeOf(result) >= 100
    /\ IsLengthReason(result.reason[1]) =>
          /\ SizeOf(result) >= 100
          /\ TextOf(result) # ""
          /\ Len(strip(TextOf(result))) < 50
    /\ IsWordCountReason(result.reason[1]) =>
          /\ SizeOf(result) >= 100
          /\ TextOf(result) # ""
          /\ Len(strip(TextOf(result))) >= 50
          /\ Len(split(TextOf(result))) < 15

\* C21: both pipelines run their checks in the order locate, select, size
\* check, extract, empty-text check, length check (fewer than 50
\* characters), word-count check (fewer than 15 words), analyzer; the reason
\* returned is that of the first check that fails, so that a text that is
\* both too short and of too few words gets the length reason; and no later
\* stage runs after a failed check: the stages entered end with the failed
\* one and the custom dictionary is not loaded.
C21_FirstFailedCheck ==
    [][IsFailedCheck(last') =>
          /\ files' = files
          /\ ReasonOfFirstFailure(last')
          /\ last'.stages = StagesOfReason(last'.reason[1])
          /\ dict_file' = dict_file]_vars

\* a text of 6 words and 34 characters has been refused for its length
C21_Witness ==
    /\ IsFailedCheck(last)
    /\ IsLengthReason(last.reason[1])
    /\ SelectedText # ""
    /\ Len(split(SelectedText)) < 15
    /\ Len(strip(SelectedText)) < 50

IsCleaned == last.op = "clean_educational_text"

\* a marker followed by a code character stands somewhere in s
HasFormatCode(s) ==
    \E i \in 1..(Len(s) - 1) : Char(s, i) = "§" /\ Char(s, i + 1) \in FormatCodes

\* s with every marker and its code character cut out, the rest as it is
WithoutFormatCodes(s) ==
    Rewrite(s, LAMBDA t, i :
                  IF (i < Len(t) /\ Char(t, i) = "§" /\ Char(t, i + 1) \in FormatCodes)
                     \/ (i > 1 /\ Char(t, i - 1) = "§" /\ Char(t, i) \in FormatCodes)
                  THEN "" ELSE Char(t, i))

\* C22: cleaning a value that holds a format code (the marker and one code
\* character) removes the marker and the code character and nothing else
\* of the value, so that the value is cleaned as the value without them is;
\* and the cleaned value holds no format code.
C22_FormatCodesRemoved ==
    IsCleaned /\ HasFormatCode(last.text) =>
        /\ last.cleaned = clean_educational_text(WithoutFormatCodes(last.text))
        /\ ~ HasFormatCode(last.cleaned)

\* the lists the locator can give for the world folder, one for each order
\* in which the folder can be walked
LocatorLists ==
    {find_language_files(files, directories, WorldFolder, walk) :
        walk \in Orderings(FilesUnder(files, os_path_join(UNPACKED_FOLDER, WorldFolder)))}

\* the file the pipelines select of a list of the locator
CandidateOf(lang_files) ==
    IF SelectSeq(lang_files, IsEnglish) # <<>> THEN MaxBySize(SelectSeq(lang_files, IsEnglish))
    ELSE MaxBySize(lang_files)

\* C28: the file analysed by the analysis and by the spell check is the
\* first element of the locator's ordered list for the same folder, also
\* when several files have the same size: the selection by maximal size and
\* the locator's ranking never disagree.
C28_CandidateIsFirst ==
    /\ \A lang_files \in LocatorLists :
          lang_files # <<>> => CandidateOf(lang_files) = lang_files[1]
    /\ IsPipelineResult /\ last.selected # None =>
          \E lang_files \in LocatorLists : lang_files # <<>> /\ last.selected[1] = lang_files[1]

\* a pipeline has selected one of two primary-locale files of the same size
C28_Witness ==
    /\ IsPipelineResult
    /\ last.selected # None
    /\ \E path \in PrimaryFilesOfWorld :
          /\ path # last.selected[1].full_path
          /\ ByteLen(files[path]) = SelectedSize

\* the words of a list of errors
ErrorWords(errors) == {errors[i].word : i \in 1..Len(errors)}

\* C29: in every spell check report each misspelled word has a contextUsage
\* of at least 1 and stands in exactly one of commonErrors and
\* unique_errors: the two lists share no word, together they hold the words
\* of all_errors, common_errors_count + unique_errors_count =
\* misspelled_words <= total_unique_words, and the accuracy percentage lies
\* between 0 and 100.
C29_ErrorPartition ==
    IsSpellReport =>
        /\ \A i \in 1..Len(last.report[1].errors.all_errors) :
              last.report[1].errors.all_errors[i].context_usage >= 1
        /\ ErrorWords(last.report[1].errors.common_errors)
              \cap ErrorWords(last.report[1].errors.unique_errors) = {}
        /\ ErrorWords(last.report[1].errors.common_errors)
              \cup ErrorWords(last.report[1].errors.unique_errors)
              = ErrorWords(last.report[1].errors.all_errors)
        /\ Len(last.report[1].errors.common_errors) + Len(last.report[1].errors.unique_errors)
              = Len(last.report[1].errors.all_errors)
        /\ last.report[1].statistics.common_errors_count
              = Len(last.report[1].errors.common_errors)
        /\ last.report[1].statistics.unique_errors_count
              = Len(last.report[1].errors.unique_errors)
        /\ last.report[1].statistics.common_errors_count
              + last.report[1].statistics.unique_errors_count
              = last.report[1].statistics.misspelled_words
        /\ last.report[1].statistics.misspelled_words
              <= last.report[1].statistics.total_unique_words
        /\ last.report[1].statistics.accuracy_percentage \in 0..1000

\* a report of three misspelled words, one of them used more than once
C29_Witness ==
    /\ IsSpellReport
    /\ last.report[1].statistics.misspelled_words = 3
    /\ last.report[1].statistics.common_errors_count = 1
    /\ last.report[1].statistics.unique_errors_count = 2
    /\ last.report[1].statistics.accuracy_percentage < 1000

\* the ages a report can name
TargetAges == (6..18) \cup {22}

\* the grades the target age is compared over, in hundredths
GradeRange == (-300)..2100

\* C30: in every analysis report the target age is a non-decreasing
\* function of the Flesch-Kincaid grade, is one of 6, ..., 17, 18 and 22,
\* and agrees with the reading level of the same grade: Elementary means an
\* age of 6 to 11, Middle School 11 to 13, High School 13 to 17, College 18
\* and Graduate 22.
C30_AgeFollowsGrade ==
    IsAnalyzed =>
        \E age \in TargetAges :
            /\ last.analysis[1].target_age = str(age) \o " years"
            /\ \A grade \in GradeRange :
                  /\ grade <= last.grade => precise_age(grade) <= age
                  /\ grade >= last.grade => precise_age(grade) >= age
            /\ last.analysis[1].reading_level = "Elementary (Grades 1-6)" => age \in 6..11
            /\ last.analysis[1].reading_level = "Middle School (Grades 6-8)" => age \in 11..13
            /\ last.analysis[1].reading_level = "High School (Grades 9-12)" => age \in 13..17
            /\ last.analysis[1].reading_level = "College Level" => age = 18
            /\ last.analysis[1].reading_level = "Graduate Level" => age = 22
            /\ last.analysis[1].reading_level \in
                  { "Elementary (Grades 1-6)", "Middle School (Grades 6-8)",
                    "High School (Grades 9-12)", "College Level", "Graduate Level" }

\* the report of a grade of 6.01: Middle School and an age of 11, the age of
\* the Elementary grade 6.0 too
C30_Witness ==
    /\ IsAnalyzed
    /\ last.grade = 601
    /\ last.analysis[1].reading_level = "Middle School (Grades 6-8)"
    /\ last.analysis[1].target_age = "11 years"


(***************************************************************************)
(* Properties of the world store                                           *)
(***************************************************************************)
\* no two records of the list share an id
UniqueIds(records) ==
    \A i \in 1..Len(records) : \A j \in 1..Len(records) :
        records[i].id = records[j].id => i = j

\* C23: after any sequence of uploads, repacks, unpacks and deletions no two
\* world records share an id and no two unpacked records share an id
C23_UniqueIds == UniqueIds(metadata) /\ UniqueIds(unpacked_metadata)

\* the two halves of C23 on their own
C23_UniqueWorldIds == UniqueIds(metadata)

C23_UniqueUnpackedIds == UniqueIds(unpacked_metadata)

\* the unpacked records of the world whose folder is on disk
LiveCopies(world_id) ==
    {i \in 1..Len(unpacked_metadata) :
        /\ unpacked_metadata[i].original_world_id = world_id
        /\ path_exists(files, directories, UnpackedPath(unpacked_metadata[i].folder_name))}

\* C26: unpack_world never creates a second live unpacked copy of a world:
\* after any sequence of operations at most one unpacked record with an
\* existing folder refers to a given world id
C26_OneLiveCopy == \A world_id \in WorldIds : Cardinality(LiveCopies(world_id)) <= 1

\* the step of C26: an unpack that succeeds adds a record for a world id that
\* had no unpacked record with an existing folder
C26_NoSecondCopy ==
    [][(last'.op = "unpack_world" /\ last'.success) =>
          LiveCopies(unpacked_metadata'[Len(unpacked_metadata')].original_world_id) = {}]_vars

\* the case of C26 in which the code does refuse: the world is marked
\* unpacked, its copy is on disk, and the answer leaves the store as it was
C26_MarkedIsRefused ==
    [][(last'.op = "unpack_world" /\ last'.message = "World is already unpacked") =>
          /\ \E world_id \in WorldIds : LiveCopies(world_id) # {}
          /\ UNCHANGED <<files, directories, metadata, unpacked_metadata>>]_vars

\* some world record of the list has the original filename
IsStoredName(records, name) ==
    \E i \in 1..Len(records) : records[i].original_filename = name

\* <base>_v<n><ext> of a name that has an extension
VersionOf(name, n) == BeforeLastDot(name) \o "_v" \o str(n) \o "." \o AfterLastDot(name)

\* the files of the unpacked folders are the same before and after the step
UnpackedFoldersUnchanged ==
    /\ directories' = directories
    /\ \A path \in DOMAIN files \cup DOMAIN files' :
           Inside(path, UnpackedRoot) =>
               path \in DOMAIN files /\ path \in DOMAIN files' /\ files'[path] = files[path]

\* C27: a successful repack_world appends exactly one world record, named
\* <base>_v<n><ext> with the smallest n >= 1 that no stored world has as its
\* original filename, with unpacked = false and repacked_from the unpacked
\* id, and leaves the other world records, the unpacked metadata and the
\* unpacked folders unchanged; a failed one adds no record and leaves no
\* repacked file
C27_RepackVersion ==
    [][last'.op = "repack_world" =>
          IF last'.success
          THEN /\ Len(metadata') = Len(metadata) + 1
               /\ SubSeq(metadata', 1, Len(metadata)) = metadata
               /\ metadata'[Len(metadata')].unpacked = FALSE
               /\ ~ IsStoredName(metadata, metadata'[Len(metadata')].original_filename)
               /\ StorePath(metadata'[Len(metadata')].filename) \in DOMAIN files'
               /\ \E unpacked_id \in UnpackedIds : \E n \in 1..(Len(metadata) + 1) :
                      /\ IndexOfId(unpacked_metadata, unpacked_id) # 0
                      /\ metadata'[Len(metadata')].repacked_from = Some(unpacked_id)
                      /\ metadata'[Len(metadata')].original_filename
                             = VersionOf(unpacked_metadata[IndexOfId(unpacked_metadata, unpacked_id)].original_filename, n)
                      /\ \A k \in 1..(n - 1) :
                             IsStoredName(metadata,
                                 VersionOf(unpacked_metadata[IndexOfId(unpacked_metadata, unpacked_id)].original_filename, k))
               /\ unpacked_metadata' = unpacked_metadata
               /\ UnpackedFoldersUnchanged
          ELSE /\ metadata' = metadata
               /\ unpacked_metadata' = unpacked_metadata
               /\ DOMAIN files' \subseteq DOMAIN files
               /\ UnpackedFoldersUnchanged]_vars

\* a repack has skipped the version 1 that is stored and made version 2
C27_Witness ==
    /\ last.op = "repack_world"
    /\ last.success
    /\ IsStoredName(metadata, "castle_v1.mcworld")
    /\ metadata[Len(metadata)].original_filename = "castle_v2.mcworld"
    /\ metadata[Len(metadata)].repacked_from = Some(1)

\* a repack has failed once the archive was being written
C27_FailureWitness ==
    /\ last.op = "repack_world"
    /\ ~ last.success
    /\ last.message = "Error repacking world: zip"

(***************************************************************************)
(* Properties of dictionary requests served at the same time               *)
(***************************************************************************)
\* the words of the dictionary file as it is on disk
PersistedWords == IF dict_file = None THEN <<>> ELSE WordsOfLines(dict_file[1])

Serialized == Cardinality({t \in Threads : threads[t].pc # "idle"}) <= 1

C25_OneCreationAttempt ==
    \A t \in Threads :
        /\ threads[t].pc # "idle" => threads[t].attempts <= 1
        /\ threads[t].pc = "loaded" /\ threads[t].attempts >= 1 /\ dict_file = None =>
               threads[t].existing_words = <<>>

\* the second half of C25 on its own: a load that could not create the file
\* returns the empty list
C25_EmptyWhenNotCreated ==
    \A t \in Threads :
        threads[t].pc = "loaded" /\ threads[t].attempts >= 1 /\ dict_file = None =>
            threads[t].existing_words = <<>>

====
